---- MODULE Spec2Model ----
(***************************************************************************)
(* pytest-enhanced-reports: the capture gate, the lifecycle dispatcher     *)
(* (core.py), the artifact capturers (screenshot_manager.py,               *)
(* browser_console_manager.py) and the video recorder (video_manager.py).  *)
(***************************************************************************)
EXTENDS Integers, Sequences, FiniteSets, TLC

(***************************************************************************)
(* Bounds of the model.                                                    *)
(***************************************************************************)
\* UI operations (listener events, action chains) in one test
MaxOps == 1
\* frames the capture loop writes before the stop flag must be raised
MaxFrames == 2
\* screenshot captures followed step by step in one session
MaxCaptures == 2
\* lookups of the configuration in one process
MaxLookups == 3
\* entries of the browser's log buffer at one capture
MaxEntries == 2
\* tests recorded one after the other in one session
MaxRecordings == 2

(***************************************************************************)
(* Enumerations (config.py, core.py).                                      *)
(***************************************************************************)
OpFreq == {"ALWAYS", "EACH_UI_OPERATION", "END_OF_EACH_TEST", "FAILED_TEST_ONLY", "NEVER"}

EnhancedReportTestState ==
  {"BEFORE_TEST", "CUSTOM_DURING_TEST", "AFTER_TEST", "BEFORE_UI_OPERATION",
   "AFTER_UI_OPERATION", "ERROR", "FAILED", "PASSED", "SKIPPED"}

EnhancedReportAttachments == {"JS_LOG", "SS", "SS_WITH_HIGHLIGHT", "VIDEO"}

\* first component of the enum's tuple: the kind that picks attach_<kind>
AttachmentKind(attachment_type) ==
  CASE attachment_type = "JS_LOG" -> "text"
    [] attachment_type = "SS" -> "image"
    [] attachment_type = "SS_WITH_HIGHLIGHT" -> "image"
    [] attachment_type = "VIDEO" -> "video"

\* the report modules found under report_libs/
SinkModules == {"allure_pytest_bdd"}

(***************************************************************************)
(* Python values of the option dictionary.  A frequency option holds an    *)
(* OpFreq member and a flag holds a bool; a bool never equals an enum      *)
(* member, and every enum member is truthy.                                *)
(***************************************************************************)
PyFreq(f) == [type |-> "OpFreq", v |-> f]

PyBool(b) == [type |-> "bool", v |-> IF b THEN "True" ELSE "False"]

Truthy(x) ==
  ~ \/ x.type = "bool" /\ x.v = "False"
    \/ x.type = "NoneType"
    \/ x.type = "str" /\ x.v = ""

VARIABLES
  report_options,               \* core.__report_options
  currently_applicable_reports, \* core.__currently_applicable_reports
  wrapper_installed,            \* ActionChains.perform is patched
  phase,                        \* position of the session / current test
  ops_done,                     \* UI operations of the current test
  pending_op,                   \* listener operation between before_ and after_
  local_driver,                 \* _local_driver["driver"]
  attachments,                  \* what the sinks received in the current test
  escaped,                      \* hooks an exception escaped from, current test
  omitted,                      \* artifact types a permitted capture of which failed
  step_failed,                  \* a step of the current test failed by itself
  recorder_thread,              \* _video_capture: the Recorder thread
  finalizers                    \* finalizers _video_capture registered

sessionVars ==
  <<report_options, currently_applicable_reports, wrapper_installed, phase,
    ops_done, pending_op, local_driver, attachments, escaped, omitted, step_failed, recorder_thread, finalizers>>

VARIABLES
  rec_driver,       \* the driver handed to start_capturing
  stop,             \* ScreenRecorder.stop
  t_pc,             \* position of the Recorder thread in start_capturing
  count,            \* start_capturing's frame counter
  dir_exists,       \* the scratch directory exists
  directory,        \* names of the files in the scratch directory
  c_pc,             \* position of the caller in stop_recording_and_stitch_video
  c_exc,            \* an exception is propagating out of the caller's try block
  video_size,       \* what get_video_resize_resolution returned
  stitched,         \* frame files written into the report video, in order
  sort_error,       \* the ordering step of create_video_from_images raised
  attached_videos,  \* videos attached to the report
  video_store,      \* names of the files in the persistent video store
  rec_escaped,      \* recorder methods an exception escaped from
  recordings,       \* ScreenRecorder objects _video_capture created in this session
  stitch_failed,    \* create_video_from_images raised while stitching the report video
  requests,         \* calls of driver.save_screenshot start_capturing made
  late_requests,    \* those of them made with self.stop already set
  video_dir_exists  \* the persistent video directory exists

recorderVars ==
  <<rec_driver, stop, t_pc, count, dir_exists, directory, c_pc, c_exc, video_size,
    stitched, sort_error, attached_videos, video_store, rec_escaped, recordings,
    stitch_failed, requests, late_requests, video_dir_exists>>

VARIABLES
  ss_pc,            \* position in the screenshot capture under way
  ss_caller,        \* the capturer called: get_screenshot or get_highlighted_screenshot
  element_style,    \* style attribute of the element on the live page
  original_style,   \* get_highlighted_screenshot's original_style
  style_applied,    \* the highlight style was applied during this capture
  alert_seen,       \* alert_is_present answered with an alert during this capture
  ss_faulted,       \* a driver, decoding or disk error was raised during this capture
  driver_commands,  \* commands this capture sent to the driver, in order
  ss_path,          \* what the capturer returned
  ss_dir_exists,    \* the screenshot directory exists
  ss_files,         \* names of the resized images in the screenshot directory
  ss_originals,     \* names of the originals in the per-scenario subdirectory
  ss_generated,     \* [dir, name] of every image written during the run
  dispatch_index,   \* position of __report_data_handler in the list of report modules
  invocations,      \* report modules whose attach operation this dispatch invoked
  captures,         \* screenshot captures started in this session
  ss_escaped,       \* functions an exception escaped from during a capture
  cleanup_error     \* remove_test_dir caught an exception

screenshotVars ==
  <<ss_pc, ss_caller, element_style, original_style, style_applied, alert_seen,
    ss_faulted, driver_commands, ss_path, ss_dir_exists, ss_files, ss_originals,
    ss_generated, dispatch_index, invocations, captures, ss_escaped, cleanup_error>>

VARIABLES
  param_values,     \* config.__param_values
  environ,          \* os.environ, per parameter: its REPORT_<NAME> variable
  cmdline,          \* request.config.getoption of the current request, per parameter
  resolved_from,    \* the command line and the environment of the first resolution
  returned,         \* what the last call of get_all_values returned
  lookups,          \* calls of get_all_values and get_value so far
  config_escaped    \* config functions an exception escaped from

configVars ==
  <<param_values, environ, cmdline, resolved_from, returned, lookups, config_escaped>>

VARIABLES
  driver_logs,      \* logs: what driver.get_log("browser") returned
  log_index,        \* position of the loop of _format_outputs in logs
  output,           \* _format_outputs' output, a string of characters
  format_pc         \* position in _format_outputs

consoleVars == <<driver_logs, log_index, output, format_pc>>

(***************************************************************************)
(* Policy table and capture gate (core.py).                                *)
(***************************************************************************)
\* the table with FAILED_TEST_ONLY also allowed after a test
allowed_frequencies_failed_only_after_test(state) ==
  CASE state = "BEFORE_TEST" -> {PyFreq("ALWAYS")}
    [] state \in {"BEFORE_UI_OPERATION", "AFTER_UI_OPERATION"} ->
         {PyFreq("ALWAYS"), PyFreq("EACH_UI_OPERATION")}
    [] state \in {"AFTER_TEST", "ERROR", "FAILED"} ->
         {PyFreq("ALWAYS"), PyFreq("END_OF_EACH_TEST"), PyFreq("FAILED_TEST_ONLY")}
    [] state = "PASSED" -> {PyFreq("ALWAYS"), PyFreq("END_OF_EACH_TEST")}
    [] state \in {"CUSTOM_DURING_TEST", "SKIPPED"} -> {}

\* the table with EACH_UI_OPERATION missing before a UI operation
allowed_frequencies_always_only_before_operation(state) ==
  CASE state \in {"BEFORE_TEST", "BEFORE_UI_OPERATION"} -> {PyFreq("ALWAYS")}
    [] state = "AFTER_UI_OPERATION" -> {PyFreq("ALWAYS"), PyFreq("EACH_UI_OPERATION")}
    [] state \in {"AFTER_TEST", "PASSED"} -> {PyFreq("ALWAYS"), PyFreq("END_OF_EACH_TEST")}
    [] state \in {"ERROR", "FAILED"} ->
         {PyFreq("ALWAYS"), PyFreq("END_OF_EACH_TEST"), PyFreq("FAILED_TEST_ONLY")}
    [] state \in {"CUSTOM_DURING_TEST", "SKIPPED"} -> {}

state_and_allowed_frequencies(state) ==
  CASE state = "BEFORE_TEST" -> {PyFreq("ALWAYS")}
    [] state = "BEFORE_UI_OPERATION" -> {PyFreq("ALWAYS"), PyFreq("EACH_UI_OPERATION")}
    [] state = "AFTER_UI_OPERATION" -> {PyFreq("ALWAYS"), PyFreq("EACH_UI_OPERATION")}
    [] state = "AFTER_TEST" -> {PyFreq("ALWAYS"), PyFreq("END_OF_EACH_TEST")}
    [] state = "ERROR" ->
         {PyFreq("ALWAYS"), PyFreq("END_OF_EACH_TEST"), PyFreq("FAILED_TEST_ONLY")}
    [] state = "FAILED" ->
         {PyFreq("ALWAYS"), PyFreq("END_OF_EACH_TEST"), PyFreq("FAILED_TEST_ONLY")}
    [] state = "PASSED" -> {PyFreq("ALWAYS"), PyFreq("END_OF_EACH_TEST")}
    [] state = "CUSTOM_DURING_TEST" -> {}
    [] state = "SKIPPED" -> {}

attachment_and_config(attachment_type) ==
  CASE attachment_type = "JS_LOG" -> "JS_LOG_FREQUENCY"
    [] attachment_type = "SS" -> "SS_FREQUENCY"
    [] attachment_type = "SS_WITH_HIGHLIGHT" -> "SS_HIGHLIGHT_ELEMENT"
    [] attachment_type = "VIDEO" -> "VIDEO_ENABLED"

\* options[parameter] as a Python value
OptionValue(options, parameter) ==
  CASE parameter = "JS_LOG_FREQUENCY" -> PyFreq(options.JS_LOG_FREQUENCY)
    [] parameter = "SS_FREQUENCY" -> PyFreq(options.SS_FREQUENCY)
    [] parameter = "SS_HIGHLIGHT_ELEMENT" -> PyBool(options.SS_HIGHLIGHT_ELEMENT)
    [] parameter = "VIDEO_ENABLED" -> PyBool(options.VIDEO_ENABLED)

\* a gate that permits a type only until the test got its first attachment
can_record_until_first_attachment(attachment_type, current_state) ==
  LET param_value == OptionValue(report_options, attachment_and_config(attachment_type))
  IN  /\ Truthy(param_value)
      /\ param_value \in state_and_allowed_frequencies(current_state)
      /\ attachments = <<>>

\* the gate testing only the truth of the parameter, not the table
can_record_truthy_only(attachment_type, current_state) ==
  Truthy(OptionValue(report_options, attachment_and_config(attachment_type)))

can_record(attachment_type, current_state) ==
  LET options == report_options
      param_value == OptionValue(options, attachment_and_config(attachment_type))
  IN  IF ~Truthy(param_value)
         \/ param_value \notin state_and_allowed_frequencies(current_state)
      THEN FALSE
      ELSE IF attachment_type = "VIDEO" /\ ~Truthy(param_value)
           THEN FALSE
           ELSE IF attachment_type = "SS_WITH_HIGHLIGHT"
                THEN ~(~Truthy(param_value)
                       \/ OptionValue(options, "SS_FREQUENCY")
                            \notin state_and_allowed_frequencies(current_state))
                ELSE TRUE

(***************************************************************************)
(* What the driver and the sinks do during one hook: whether an alert is   *)
(* open, whether the screenshot request (or its decoding or saving) fails, *)
(* whether the log request fails, and which sinks fail to attach.          *)
(***************************************************************************)
Env ==
  [alert : BOOLEAN, ss_fault : BOOLEAN, log_fault : BOOLEAN,
   ss_sink_fault : SUBSET SinkModules, log_sink_fault : SUBSET SinkModules]

\* a Python call: it raised, or it returned value
Raised == [raised |-> TRUE, value |-> "None"]

Returned(v) == [raised |-> FALSE, value |-> v]

\* truth value of a str-or-None result
TruthyStr(x) == x \notin {"", "None"}

(***************************************************************************)
(* Artifact capturers.                                                     *)
(***************************************************************************)
\* a decorator answering a failed call with the name of the function
fail_with_function_name(call) == IF call.raised THEN "wrapped_func" ELSE call.value

\* common_utils.fail_silently: the call's value, or None when it raised
fail_silently(call) == IF call.raised THEN "None" ELSE call.value

\* screenshot_manager.get_screenshot without its decorator
get_screenshot_body(driver, env) ==
  IF driver = "None" THEN Raised
  ELSE IF env.alert THEN Returned("")
  ELSE IF env.ss_fault THEN Raised
  ELSE Returned("path")

get_screenshot(driver, env) == fail_silently(get_screenshot_body(driver, env))

\* screenshot_manager.get_highlighted_screenshot: the path of the screenshot
\* taken between the two apply_style calls
get_highlighted_screenshot(element, driver, env) ==
  fail_silently(IF driver = "None" \/ element = "None" THEN Raised
                ELSE Returned(get_screenshot(driver, env)))

\* browser_console_manager.get_js_logs: driver.get_log, then the formatting
get_js_logs(driver, env) ==
  IF driver = "None" \/ env.log_fault THEN Raised ELSE Returned("logs")

(***************************************************************************)
(* Dispatch to the sinks.                                                  *)
(***************************************************************************)
\* one sink's attach_<kind>(name, value); an exception it raises is caught
AttachTo(report_mod, attachment_type, label, desc, failing) ==
  IF report_mod \in failing
  THEN <<>>
  ELSE <<[sink |-> report_mod, method |-> AttachmentKind(attachment_type),
          label |-> label, desc |-> desc]>>

RECURSIVE AttachLoop(_, _, _, _, _, _)
AttachLoop(att, reports, attachment_type, label, desc, failing) ==
  IF reports = <<>>
  THEN att
  ELSE AttachLoop(att \o AttachTo(Head(reports), attachment_type, label, desc, failing),
                  Tail(reports), attachment_type, label, desc, failing)

report_data_handler(att, attachment_type, label, desc, failing) ==
  AttachLoop(att, currently_applicable_reports, attachment_type, label, desc, failing)

\* the sinks of failing that are registered
FailedSinks(failing) ==
  {currently_applicable_reports[i] : i \in DOMAIN currently_applicable_reports} \cap failing

\* core.__capture_ss (it never raises): the attachments after the call, and
\* the artifact type if a permitted capture or one of its attachments failed
capture_ss(att, attachment_type, state, name, driver, element, env) ==
  IF ~can_record(attachment_type, state)
  THEN [att |-> att, omitted |-> {}]
  ELSE LET path == IF attachment_type = "SS_WITH_HIGHLIGHT" /\ element # "None"
                   THEN get_highlighted_screenshot(element, driver, env)
                   ELSE get_screenshot(driver, env)
       IN  IF TruthyStr(path)
           THEN [att |-> report_data_handler(att, attachment_type, "Screenshot", name,
                                             env.ss_sink_fault),
                 omitted |-> IF FailedSinks(env.ss_sink_fault) = {}
                             THEN {} ELSE {attachment_type}]
           ELSE [att |-> att, omitted |-> {attachment_type}]

\* core.__capture_js_logs after the capture before: the attachments after
\* the call, whether it raised, and the failed captures
capture_js_logs(before, state, driver, label, env) ==
  IF ~can_record("JS_LOG", state)
  THEN [att |-> before.att, raised |-> FALSE, omitted |-> before.omitted]
  ELSE LET logs == get_js_logs(driver, env)
       IN  IF logs.raised
           THEN [att |-> before.att, raised |-> TRUE,
                 omitted |-> before.omitted \cup {"JS_LOG"}]
           ELSE [att |-> report_data_handler(before.att, "JS_LOG",
                                             "Logs from browser console", label,
                                             env.log_sink_fault),
                 raised |-> FALSE,
                 omitted |-> IF FailedSinks(env.log_sink_fault) = {}
                             THEN before.omitted
                             ELSE before.omitted \cup {"JS_LOG"}]

\* no capture happened yet in this hook
NoCapture(att) == [att |-> att, omitted |-> {}]

(***************************************************************************)
(* File names, as sequences of characters, and the Python functions the    *)
(* recorder applies to them.                                               *)
(***************************************************************************)
DigitChars == <<"0", "1", "2", "3", "4", "5", "6", "7", "8", "9">>

\* str(n) for n >= 0
RECURSIVE Str(_)
Str(n) == IF n < 10 THEN <<DigitChars[n + 1]>> ELSE Str(n \div 10) \o <<DigitChars[(n % 10) + 1]>>

PngExt == <<".", "p", "n", "g">>

WebmExt == <<".", "w", "e", "b", "m">>

\* the name start_capturing gives frame number n: vid_frame<n>.png
FrameName(n) == <<"v", "i", "d", "_", "f", "r", "a", "m", "e">> \o Str(n) \o PngExt

\* <scenario>.webm
VideoName == <<"s", "c", "e", "n", "a", "r", "i", "o">> \o WebmExt

\* str.endswith
EndsWith(name, suffix) ==
  /\ Len(name) >= Len(suffix)
  /\ SubSeq(name, Len(name) - Len(suffix) + 1, Len(name)) = suffix

\* os.path.splitext(name)[0]: the name up to its last dot, a leading dot apart
SplitextRoot(name) ==
  LET dots == {i \in 2..Len(name) : name[i] = "."}
  IN  IF dots = {} THEN name
      ELSE SubSeq(name, 1, (CHOOSE i \in dots : \A j \in dots : j <= i) - 1)

DigitValue(c) == CHOOSE d \in 0..9 : DigitChars[d + 1] = c

IsDigit(c) == \E d \in 0..9 : DigitChars[d + 1] = c

RECURSIVE DecimalValue(_)
DecimalValue(chars) ==
  IF chars = <<>> THEN 0
  ELSE 10 * DecimalValue(SubSeq(chars, 1, Len(chars) - 1)) + DigitValue(chars[Len(chars)])

\* int(text): ValueError unless the text is a decimal numeral
PyInt(text) ==
  IF text # <<>> /\ \A i \in 1..Len(text) : IsDigit(text[i])
  THEN [raised |-> FALSE, value |-> DecimalValue(text)]
  ELSE [raised |-> TRUE, value |-> 0]

\* the sort key of create_video_from_images
SortKey(name) == PyInt(SplitextRoot(name))

\* insert name into a list sorted by key, after the entries with an equal key
RECURSIVE InsertByKey(_, _)
InsertByKey(sorted_names, name) ==
  IF sorted_names = <<>> THEN <<name>>
  ELSE IF SortKey(name).value < SortKey(Head(sorted_names)).value
       THEN <<name>> \o sorted_names
       ELSE <<Head(sorted_names)>> \o InsertByKey(Tail(sorted_names), name)

RECURSIVE SortedNames(_)
SortedNames(names) ==
  IF names = <<>> THEN <<>>
  ELSE InsertByKey(SortedNames(SubSeq(names, 1, Len(names) - 1)), names[Len(names)])

\* sorted(image_files, key=...): it raises when a key raises
sorted_image_files(image_files) ==
  IF \E i \in 1..Len(image_files) : SortKey(image_files[i]).raised
  THEN [raised |-> TRUE, value |-> <<>>]
  ELSE [raised |-> FALSE, value |-> SortedNames(image_files)]

\* the orders in which os.listdir may return the names of a directory
Listings(names) ==
  {l \in [1..Cardinality(names) -> names] : \A n \in names : \E i \in DOMAIN l : l[i] = n}

\* [f for f in listing if f.endswith(".png")]
RECURSIVE PngFiles(_)
PngFiles(listing) ==
  IF listing = <<>> THEN <<>>
  ELSE (IF EndsWith(Head(listing), PngExt) THEN <<Head(listing)>> ELSE <<>>)
         \o PngFiles(Tail(listing))

(***************************************************************************)
(* The session: fixtures and hooks of core.py.                             *)
(***************************************************************************)
\* the option dictionaries config.get_all_values can produce: here the
\* capture policies vary and the video options keep their defaults
Options ==
  [JS_LOG_FREQUENCY : OpFreq, SS_FREQUENCY : OpFreq,
   SS_HIGHLIGHT_ELEMENT : BOOLEAN, VIDEO_ENABLED : BOOLEAN,
   SS_KEEP_FILES : {FALSE},
   VIDEO_KEEP_FILES : {FALSE}, VIDEO_WIDTH : {0}, VIDEO_HEIGHT : {0},
   VIDEO_RESIZE_PERCENT : {75}]

\* _reports: the report modules whose pytest plugin is installed, in order
ReportLists == {<<>>, <<"allure_pytest_bdd">>}

\* no ScreenRecorder exists
RecorderNotCreated ==
  /\ rec_driver = "None"
  /\ stop = FALSE
  /\ t_pc = "none"
  /\ count = 0
  /\ dir_exists = FALSE
  /\ directory = {}
  /\ c_pc = "none"
  /\ c_exc = "none"
  /\ video_size = <<>>
  /\ stitched = <<>>
  /\ sort_error = FALSE
  /\ attached_videos = 0
  /\ video_store = {}
  /\ rec_escaped = {}
  /\ recordings = 0
  /\ stitch_failed = FALSE
  /\ requests = 0
  /\ late_requests = 0
  /\ video_dir_exists = FALSE

\* the configuration is not followed: nothing was resolved or looked up
ConfigNotInUse ==
  /\ param_values = <<>>
  /\ environ = <<>>
  /\ cmdline = <<>>
  /\ resolved_from = <<>>
  /\ returned = <<>>
  /\ lookups = 0
  /\ config_escaped = {}

\* no console log is being formatted
ConsoleNotInUse ==
  /\ driver_logs = <<>>
  /\ log_index = 0
  /\ output = <<>>
  /\ format_pc = "none"

\* no screenshot capture is followed step by step
ScreenshotNotInUse ==
  /\ ss_pc = "none"
  /\ ss_caller = "none"
  /\ element_style = ""
  /\ original_style = "None"
  /\ style_applied = FALSE
  /\ alert_seen = FALSE
  /\ ss_faulted = FALSE
  /\ driver_commands = <<>>
  /\ ss_path = "None"
  /\ ss_dir_exists = FALSE
  /\ ss_files = {}
  /\ ss_originals = {}
  /\ ss_generated = {}
  /\ dispatch_index = 0
  /\ invocations = <<>>
  /\ captures = 0
  /\ ss_escaped = {}
  /\ cleanup_error = FALSE

Init ==
  /\ report_options \in Options
  /\ currently_applicable_reports \in ReportLists
  /\ wrapper_installed = FALSE
  /\ phase = "session_setup"
  /\ ops_done = 0
  /\ pending_op = "none"
  /\ local_driver = "None"
  /\ attachments = <<>>
  /\ escaped = {}
  /\ omitted = {}
  /\ step_failed = FALSE
  /\ recorder_thread = "None"
  /\ finalizers = <<>>
  /\ RecorderNotCreated
  /\ ScreenshotNotInUse
  /\ ConfigNotInUse
  /\ ConsoleNotInUse

\* _create_wrappers: patch ActionChains.perform unless screenshots are not
\* permitted after a UI operation
create_wrappers ==
  /\ phase = "session_setup"
  /\ wrapper_installed' = can_record("SS", "AFTER_UI_OPERATION")
  /\ phase' = "idle"
  /\ UNCHANGED <<recorderVars, screenshotVars, configVars, consoleVars>>
  /\ UNCHANGED <<report_options, currently_applicable_reports, ops_done,
                 pending_op, local_driver, attachments, escaped, omitted, step_failed,
                 recorder_thread, finalizers>>

\* test setup: _local_driver gives a fresh slot, _video_capture starts the
\* recorder when the gate permits VIDEO before the test
video_capture ==
  /\ phase = "idle"
  /\ phase' = "running"
  /\ ops_done' = 0
  /\ pending_op' = "none"
  /\ local_driver' = "None"
  /\ attachments' = <<>>
  /\ escaped' = {}
  /\ omitted' = {}
  /\ step_failed' = FALSE
  /\ IF can_record("VIDEO", "BEFORE_TEST")
     THEN /\ recorder_thread' = "started"
          /\ finalizers' = <<"stop_recording_and_stitch_video">>
     ELSE /\ recorder_thread' = "None"
          /\ finalizers' = <<>>
  /\ UNCHANGED <<recorderVars, screenshotVars, configVars, consoleVars>>
  /\ UNCHANGED <<report_options, currently_applicable_reports, wrapper_installed>>

\* enhance_driver's getter: the test registers its driver
enhanced_driver_getter ==
  /\ phase = "running"
  /\ pending_op = "none"
  /\ local_driver = "None"
  /\ local_driver' = "driver"
  /\ UNCHANGED <<recorderVars, screenshotVars, configVars, consoleVars>>
  /\ UNCHANGED <<report_options, currently_applicable_reports, wrapper_installed,
                 phase, ops_done, pending_op, attachments, escaped, omitted,
                 step_failed,
                 recorder_thread, finalizers>>

\* a hook called from inside a step: an exception leaving it leaves the step
HookInStep(hook, result, op_after) ==
  /\ attachments' = result.att
  /\ omitted' = omitted \cup result.omitted
  /\ pending_op' = op_after
  /\ IF result.raised
     THEN /\ escaped' = escaped \cup {hook}
          /\ phase' = "raising"
     ELSE /\ escaped' = escaped
          /\ phase' = phase
  /\ UNCHANGED <<recorderVars, screenshotVars, configVars, consoleVars>>
  /\ UNCHANGED <<report_options, currently_applicable_reports, wrapper_installed,
                 local_driver, step_failed, recorder_thread, finalizers>>

\* the test may start a UI operation through the enhanced driver
CanStartOp == phase = "running" /\ pending_op = "none" /\ ops_done < MaxOps

\* a listener fetching the console logs first and the screenshot second
logs_then_screenshot(att, op_name, driver, env) ==
  LET js == capture_js_logs(NoCapture(att), "AFTER_UI_OPERATION", driver, op_name, env)
      ss == capture_ss(js.att, "SS", "AFTER_UI_OPERATION", op_name, driver, "None", env)
  IN  IF js.raised THEN js
      ELSE [att |-> ss.att, raised |-> FALSE, omitted |-> js.omitted \cup ss.omitted]

\* WebDriverEventListener: screenshot, then console logs, after an operation
AfterOperation(att, op_name, driver, env) ==
  capture_js_logs(capture_ss(att, "SS", "AFTER_UI_OPERATION", op_name, driver, "None", env),
                  "AFTER_UI_OPERATION", driver, op_name, env)

\* WebDriverEventListener: highlighted screenshot before an operation
BeforeOperation(att, op_name, driver, element, env) ==
  LET ss == capture_ss(att, "SS_WITH_HIGHLIGHT", "BEFORE_UI_OPERATION", op_name,
                       driver, element, env)
  IN  [att |-> ss.att, raised |-> FALSE, omitted |-> ss.omitted]

after_navigate_to ==
  /\ CanStartOp /\ local_driver # "None"
  /\ ops_done' = ops_done + 1
  /\ \E result \in
       { AfterOperation(attachments, "Navigation to url", local_driver, env)
           : env \in Env } :
       HookInStep("after_navigate_to", result, "none")

before_click ==
  /\ CanStartOp /\ local_driver # "None"
  /\ ops_done' = ops_done + 1
  /\ \E result \in
       { BeforeOperation(attachments, "before click", local_driver, "element", env)
           : env \in Env } :
       HookInStep("before_click", result, "click")

after_click ==
  /\ phase = "running" /\ pending_op = "click"
  /\ ops_done' = ops_done
  /\ \E result \in
       { AfterOperation(attachments, "after click", local_driver, env)
           : env \in Env } :
       HookInStep("after_click", result, "none")

before_change_value_of ==
  /\ CanStartOp /\ local_driver # "None"
  /\ ops_done' = ops_done + 1
  /\ \E result \in
       { BeforeOperation(attachments, "before keyboard input", local_driver,
            "element", env)
           : env \in Env } :
       HookInStep("before_change_value_of", result, "change_value_of")

after_change_value_of ==
  /\ phase = "running" /\ pending_op = "change_value_of"
  /\ ops_done' = ops_done
  /\ \E result \in
       { AfterOperation(attachments, "after keyboard input", local_driver, env)
           : env \in Env } :
       HookInStep("after_change_value_of", result, "none")

after_execute_script ==
  /\ CanStartOp /\ local_driver # "None"
  /\ ops_done' = ops_done + 1
  /\ \E result \in
       { AfterOperation(attachments, "after JS execution", local_driver, env)
           : env \in Env } :
       HookInStep("after_execute_script", result, "none")

after_navigate_back ==
  /\ CanStartOp /\ local_driver # "None"
  /\ ops_done' = ops_done + 1
  /\ \E result \in
       { capture_js_logs(NoCapture(attachments), "AFTER_UI_OPERATION",
            local_driver, "after navigating back", env)
           : env \in Env } :
       HookInStep("after_navigate_back", result, "none")

\* ActionChains.perform: wrapped only when _create_wrappers installed the patch;
\* instance._driver is the driver the test built the chain on
wrap_action_chains_perform_method ==
  /\ CanStartOp
  /\ ops_done' = ops_done + 1
  /\ \E result \in
       { IF wrapper_installed
            THEN AfterOperation(attachments, "after action chain", "driver", env)
            ELSE [att |-> attachments, raised |-> FALSE, omitted |-> {}]
           : env \in Env } :
       HookInStep("wrap_action_chains_perform_method", result, "none")

\* screenshot, then console logs, each behind its own gate check: the body of
\* pytest_bdd_step_error and of pytest_bdd_after_scenario
CaptureAtState(att, current_state, op_name, driver, env) ==
  LET ss == IF can_record("SS", current_state)
            THEN capture_ss(att, "SS", current_state, op_name, driver, "None", env)
            ELSE NoCapture(att)
  IN  IF can_record("JS_LOG", current_state)
      THEN capture_js_logs(ss, current_state, driver, op_name, env)
      ELSE [att |-> ss.att, raised |-> FALSE, omitted |-> ss.omitted]

\* a step raised (by itself, or because a hook raised inside it)
pytest_bdd_step_error ==
  /\ phase \in {"running", "raising"}
  /\ step_failed' = (step_failed \/ phase = "running")
  /\ phase' = "step_error_done"
  /\ pending_op' = "none"
  /\ \E result \in
       { CaptureAtState(attachments, "ERROR", "after action chain",
                          local_driver, env)
           : env \in Env } :
           /\ attachments' = result.att
           /\ omitted' = omitted \cup result.omitted
           /\ escaped' = IF result.raised
                         THEN escaped \cup {"pytest_bdd_step_error"}
                         ELSE escaped
  /\ UNCHANGED <<recorderVars, screenshotVars, configVars, consoleVars>>
  /\ UNCHANGED <<report_options, currently_applicable_reports, wrapper_installed,
                 ops_done, local_driver, recorder_thread, finalizers>>

\* the scenario ended, with or without a failed step
pytest_bdd_after_scenario ==
  /\ \/ phase = "running" /\ pending_op = "none"
     \/ phase = "step_error_done"
  /\ phase' = "finished"
  /\ \E result \in
       { CaptureAtState(attachments, "AFTER_TEST", "after test",
                          local_driver, env)
           : env \in Env } :
           /\ attachments' = result.att
           /\ omitted' = omitted \cup result.omitted
           /\ escaped' = IF result.raised
                         THEN escaped \cup {"pytest_bdd_after_scenario"}
                         ELSE escaped
  /\ UNCHANGED <<recorderVars, screenshotVars, configVars, consoleVars>>
  /\ UNCHANGED <<report_options, currently_applicable_reports, wrapper_installed,
                 ops_done, pending_op, local_driver, step_failed,
                 recorder_thread, finalizers>>

\* test teardown of a test for which _video_capture registered no finalizer:
\* the test's fixtures and its report entry are closed
teardown ==
  /\ phase = "finished"
  /\ finalizers = <<>>
  /\ phase' = "idle"
  /\ ops_done' = 0
  /\ local_driver' = "None"
  /\ attachments' = <<>>
  /\ escaped' = {}
  /\ omitted' = {}
  /\ step_failed' = FALSE
  /\ UNCHANGED <<recorderVars, screenshotVars, configVars, consoleVars>>
  /\ UNCHANGED <<report_options, currently_applicable_reports, wrapper_installed,
                 pending_op, recorder_thread, finalizers>>

(***************************************************************************)
(* The video recorder (video_manager.py): the Recorder thread runs         *)
(* start_capturing, the test's finalizer runs                              *)
(* stop_recording_and_stitch_video.                                        *)
(***************************************************************************)
\* the exceptions the driver, the file system, PIL and cv2 raise here; all
\* of them derive from Exception
ExceptionClasses ==
  {"AttributeError", "WebDriverException", "OSError", "FileNotFoundError",
   "IndexError", "ValueError", "TypeError", "cv2.error"}

\* the resolution of the window the driver photographs
NativeResolution == <<200, 100>>

\* common_utils.get_resized_resolution, the factor given in percent
get_resized_resolution(width, height, resize_percent) ==
  <<(width * resize_percent) \div 100, (height * resize_percent) \div 100>>

\* except Exception of start_capturing
start_capturing_catches(exc) == exc \in ExceptionClasses

\* a handler for file-system errors only
catches_only_os_errors(exc) == exc \in {"OSError", "FileNotFoundError"}

\* a handler for the errors of listing, ordering and writing only
catches_only_stitching_errors(exc) ==
  exc \in {"OSError", "FileNotFoundError", "ValueError", "cv2.error"}

\* except Exception of stop_recording_and_stitch_video
stop_recording_catches(exc) == exc \in ExceptionClasses

\* except Exception of get_video_resize_resolution
resize_resolution_catches(exc) == exc \in ExceptionClasses

\* a join that does not wait
join_returns_at_once == TRUE

\* a join with a timeout, which gives up on a thread stuck in the driver
join_gives_up_on_stuck_thread == t_pc \in {"done", "hung"}

\* Thread.join returns once the thread has terminated
join_returns == t_pc = "done"

\* the option dictionaries of the recorder's runs: the video options vary
RecorderOptions ==
  [JS_LOG_FREQUENCY : {"FAILED_TEST_ONLY"}, SS_FREQUENCY : {"EACH_UI_OPERATION"},
   SS_HIGHLIGHT_ELEMENT : {FALSE}, VIDEO_ENABLED : {TRUE}, SS_KEEP_FILES : {FALSE},
   VIDEO_KEEP_FILES : BOOLEAN, VIDEO_WIDTH : {0, 100}, VIDEO_HEIGHT : {0, 100},
   VIDEO_RESIZE_PERCENT : {75}]

\* a ScreenRecorder was constructed, its thread started on start_capturing
\* and its stop_recording_and_stitch_video registered as finalizer
InitRecorder ==
  /\ report_options \in RecorderOptions
  /\ currently_applicable_reports \in ReportLists
  /\ wrapper_installed = FALSE
  /\ phase = "running"
  /\ ops_done = 0
  /\ pending_op = "none"
  /\ local_driver \in {"None", "driver"}
  /\ attachments = <<>>
  /\ escaped = {}
  /\ omitted = {}
  /\ step_failed = FALSE
  /\ recorder_thread = "started"
  /\ finalizers = <<"stop_recording_and_stitch_video">>
  /\ rec_driver = local_driver
  /\ stop = FALSE
  /\ t_pc = "start"
  /\ count = 0
  /\ dir_exists = FALSE
  /\ directory = {}
  /\ c_pc = "registered"
  /\ c_exc = "none"
  /\ video_size = <<>>
  /\ stitched = <<>>
  /\ sort_error = FALSE
  /\ attached_videos = 0
  /\ video_store = {}
  /\ rec_escaped = {}
  /\ recordings = 1
  /\ stitch_failed = FALSE
  /\ requests = 0
  /\ late_requests = 0
  /\ video_dir_exists = TRUE
  /\ ScreenshotNotInUse
  /\ ConfigNotInUse
  /\ ConsoleNotInUse

\* the thread leaves start_capturing because exc was raised in its try block
ThreadRaises(exc) ==
  /\ t_pc' = "done"
  /\ rec_escaped' = IF start_capturing_catches(exc)
                    THEN rec_escaped
                    ELSE rec_escaped \cup {"start_capturing"}

\* a loop that tests the flag before each frame
while_not_stopped == ~stop

\* while True:
while_true == TRUE

\* start_capturing up to the loop: common_utils.mkdir
start_capturing_mkdir ==
  /\ t_pc = "start"
  /\ \/ /\ dir_exists' = TRUE
        /\ t_pc' = IF while_true THEN "save" ELSE "done"
        /\ UNCHANGED rec_escaped
     \/ /\ ThreadRaises("OSError")
        /\ UNCHANGED dir_exists
  /\ UNCHANGED <<rec_driver, stop, count, directory, c_pc, c_exc, video_size,
                 stitched, sort_error, attached_videos, video_store>>
  /\ UNCHANGED <<recordings, stitch_failed, requests, late_requests, video_dir_exists>>
  /\ UNCHANGED <<sessionVars, screenshotVars, configVars, consoleVars>>

\* a thread that reads the test's driver slot at each request
slot_read_at_each_request == local_driver

\* the driver start_capturing works on: the argument the thread was given
thread_driver == rec_driver

\* one driver.save_screenshot and count += 1: the frame is written, or the
\* driver fails to write it and returns False, or the request raises
start_capturing_save ==
  /\ t_pc = "save"
  /\ count < MaxFrames \/ (stop /\ count <= MaxFrames)
  /\ \/ /\ thread_driver = "None"
        /\ ThreadRaises("AttributeError")
        /\ UNCHANGED <<count, directory>>
     \/ /\ thread_driver # "None"
        /\ ThreadRaises("WebDriverException")
        /\ UNCHANGED <<count, directory>>
     \/ /\ thread_driver # "None"
        /\ \E written \in BOOLEAN :
             directory' = IF written /\ dir_exists
                          THEN directory \cup {FrameName(count)}
                          ELSE directory
        /\ count' = count + 1
        /\ t_pc' = "check"
        /\ UNCHANGED rec_escaped
  /\ requests' = requests + 1
  /\ late_requests' = IF stop THEN late_requests + 1 ELSE late_requests
  /\ UNCHANGED <<rec_driver, stop, dir_exists, c_pc, c_exc, video_size, stitched,
                 sort_error, attached_videos, video_store>>
  /\ UNCHANGED <<recordings, stitch_failed, video_dir_exists>>
  /\ UNCHANGED <<sessionVars, screenshotVars, configVars, consoleVars>>

\* a driver.save_screenshot that never returns: the thread stays in it
save_screenshot_never_returns ==
  /\ t_pc = "save"
  /\ thread_driver # "None"
  /\ count < MaxFrames \/ (stop /\ count <= MaxFrames)
  /\ t_pc' = "hung"
  /\ requests' = requests + 1
  /\ late_requests' = IF stop THEN late_requests + 1 ELSE late_requests
  /\ UNCHANGED <<rec_driver, stop, count, dir_exists, directory, c_pc, c_exc,
                 video_size, stitched, sort_error, attached_videos, video_store,
                 rec_escaped>>
  /\ UNCHANGED <<recordings, stitch_failed, video_dir_exists>>
  /\ UNCHANGED <<sessionVars, screenshotVars, configVars, consoleVars>>

\* a loop without the test of the flag
loop_never_breaks == FALSE

\* if self.stop: ... break
break_on_stop == stop

\* the end of a turn of the loop: leave it, or save the next frame
start_capturing_check ==
  /\ t_pc = "check"
  /\ t_pc' = IF break_on_stop THEN "done" ELSE IF while_true THEN "save" ELSE "done"
  /\ UNCHANGED <<rec_driver, stop, count, dir_exists, directory, c_pc, c_exc,
                 video_size, stitched, sort_error, attached_videos, video_store,
                 rec_escaped>>
  /\ UNCHANGED <<recordings, stitch_failed, requests, late_requests, video_dir_exists>>
  /\ UNCHANGED <<sessionVars, screenshotVars, configVars, consoleVars>>

\* os.rmdir alone: it removes an empty directory only
delete_dir_only_if_empty(dir) ==
  IF dir.exists /\ dir.files = {} THEN [exists |-> FALSE, files |-> {}] ELSE dir

\* common_utils.delete_dir on a directory [exists, files]
delete_dir(dir) ==
  IF dir.exists THEN [exists |-> FALSE, files |-> {}] ELSE dir

ScratchDir == [exists |-> dir_exists, files |-> directory]

\* an except clause after which the stitching is tried again
RestartsStitching(exc) ==
  /\ c_pc' = "stitch"
  /\ c_exc' = "none"

\* an except clause after which the try block goes on with the attach step
ResumesAtAttach(exc) ==
  /\ c_pc' = "attach"
  /\ c_exc' = "none"

\* exc leaves the try block of stop_recording_and_stitch_video
StopRaises(exc) ==
  /\ c_pc' = "finally"
  /\ c_exc' = IF stop_recording_catches(exc) THEN "none" ELSE exc

\* self.stop = True
stop_recording_set_stop ==
  /\ c_pc = "registered"
  /\ stop' = TRUE
  /\ c_pc' = "join"
  /\ UNCHANGED <<rec_driver, t_pc, count, dir_exists, directory, c_exc, video_size,
                 stitched, sort_error, attached_videos, video_store, rec_escaped>>
  /\ UNCHANGED <<recordings, stitch_failed, requests, late_requests, video_dir_exists>>
  /\ UNCHANGED <<sessionVars, screenshotVars, configVars, consoleVars>>

\* recorder_thread.join()
stop_recording_join ==
  /\ c_pc = "join"
  /\ join_returns
  /\ c_pc' = "resize"
  /\ UNCHANGED <<rec_driver, stop, t_pc, count, dir_exists, directory, c_exc,
                 video_size, stitched, sort_error, attached_videos, video_store,
                 rec_escaped>>
  /\ UNCHANGED <<recordings, stitch_failed, requests, late_requests, video_dir_exists>>
  /\ UNCHANGED <<sessionVars, screenshotVars, configVars, consoleVars>>

\* the try block of get_video_resize_resolution, os.listdir answering listing
resize_resolution_try(listing, open_fault) ==
  LET desired_resolution == <<report_options.VIDEO_WIDTH, report_options.VIDEO_HEIGHT>>
  IN  IF desired_resolution # <<0, 0>>
      THEN [exc |-> "none", value |-> desired_resolution]
      ELSE IF ~dir_exists THEN [exc |-> "FileNotFoundError", value |-> <<>>]
      ELSE IF PngFiles(listing) = <<>> THEN [exc |-> "IndexError", value |-> <<>>]
      ELSE IF open_fault THEN [exc |-> "OSError", value |-> <<>>]
      ELSE [exc |-> "none",
            value |-> get_resized_resolution(NativeResolution[1], NativeResolution[2],
                                             report_options.VIDEO_RESIZE_PERCENT)]

\* video_resize_info = self.get_video_resize_resolution(report_options)
get_video_resize_resolution ==
  /\ c_pc = "resize"
  /\ \E listing \in Listings(directory), open_fault \in BOOLEAN :
       LET r == resize_resolution_try(listing, open_fault)
       IN  IF r.exc = "none"
           THEN /\ video_size' = r.value
                /\ c_pc' = "stitch"
                /\ UNCHANGED <<dir_exists, directory, c_exc>>
           ELSE IF resize_resolution_catches(r.exc)
                THEN /\ dir_exists' = delete_dir(ScratchDir).exists
                     /\ directory' = delete_dir(ScratchDir).files
                     /\ video_size' = <<>>
                     /\ c_pc' = "stitch"
                     /\ UNCHANGED c_exc
                ELSE /\ StopRaises(r.exc)
                     /\ UNCHANGED <<dir_exists, directory, video_size>>
  /\ UNCHANGED <<rec_driver, stop, t_pc, count, stitched, sort_error,
                 attached_videos, video_store, rec_escaped>>
  /\ UNCHANGED <<recordings, stitch_failed, requests, late_requests, video_dir_exists>>
  /\ UNCHANGED <<sessionVars, screenshotVars, configVars, consoleVars>>

\* create_video_from_images, os.listdir of the scratch directory answering
\* listing: the frames written in order, or the exception raised
create_video_from_images(listing, size, write_fault) ==
  IF size = <<>>
  THEN [exc |-> "TypeError", frames |-> <<>>, sort_raised |-> FALSE]
  ELSE IF ~dir_exists
  THEN [exc |-> "FileNotFoundError", frames |-> <<>>, sort_raised |-> FALSE]
  ELSE LET image_files == sorted_image_files(PngFiles(listing))
       IN  IF image_files.raised
           THEN [exc |-> "ValueError", frames |-> <<>>, sort_raised |-> TRUE]
           ELSE IF image_files.value # <<>>
                   /\ (write_fault \/ size[1] = 0 \/ size[2] = 0)
           THEN [exc |-> "cv2.error", frames |-> <<>>, sort_raised |-> FALSE]
           ELSE [exc |-> "none", frames |-> image_files.value, sort_raised |-> FALSE]

\* file_name = self.create_video_from_images(..., self.__directory, ...): the
\* report video is written into the scratch directory
stop_recording_stitch ==
  /\ c_pc = "stitch"
  /\ \E listing \in Listings(directory), write_fault \in BOOLEAN, created \in BOOLEAN :
       LET r == create_video_from_images(listing, video_size, write_fault)
       IN  /\ sort_error' = (sort_error \/ r.sort_raised)
           /\ stitch_failed' = (r.exc # "none")
           /\ directory' = IF video_size # <<>> /\ dir_exists /\ created
                           THEN directory \cup {VideoName}
                           ELSE directory
           /\ IF r.exc = "none"
              THEN /\ stitched' = r.frames
                   /\ c_pc' = "attach"
                   /\ UNCHANGED c_exc
              ELSE /\ StopRaises(r.exc)
                   /\ UNCHANGED stitched
  /\ UNCHANGED <<rec_driver, stop, t_pc, count, dir_exists, video_size,
                 attached_videos, video_store, rec_escaped>>
  /\ UNCHANGED <<recordings, requests, late_requests, video_dir_exists>>
  /\ UNCHANGED <<sessionVars, screenshotVars, configVars, consoleVars>>

\* allure.attach.file(file_name, ...), then the test of VIDEO_KEEP_FILES
stop_recording_attach ==
  /\ c_pc = "attach"
  /\ \E attach_fault \in BOOLEAN :
       IF attach_fault \/ VideoName \notin directory
       THEN /\ StopRaises("OSError")
            /\ UNCHANGED attached_videos
       ELSE /\ attached_videos' = attached_videos + 1
            /\ c_pc' = IF report_options.VIDEO_KEEP_FILES THEN "keep" ELSE "finally"
            /\ UNCHANGED c_exc
  /\ UNCHANGED <<rec_driver, stop, t_pc, count, dir_exists, directory, video_size,
                 stitched, sort_error, video_store, rec_escaped>>
  /\ UNCHANGED <<recordings, stitch_failed, requests, late_requests, video_dir_exists>>
  /\ UNCHANGED <<sessionVars, screenshotVars, configVars, consoleVars>>

\* get_image_resolution and the second create_video_from_images, into the
\* video store
stop_recording_keep ==
  /\ c_pc = "keep"
  /\ \E listing \in Listings(directory), listing2 \in Listings(directory),
        open_fault \in BOOLEAN, write_fault \in BOOLEAN, created \in BOOLEAN :
       IF ~dir_exists
       THEN StopRaises("FileNotFoundError") /\ UNCHANGED <<video_store, sort_error>>
       ELSE IF PngFiles(listing) = <<>>
       THEN StopRaises("IndexError") /\ UNCHANGED <<video_store, sort_error>>
       ELSE IF open_fault
       THEN StopRaises("OSError") /\ UNCHANGED <<video_store, sort_error>>
       ELSE LET r == create_video_from_images(listing2, NativeResolution, write_fault)
            IN  /\ sort_error' = (sort_error \/ r.sort_raised)
                /\ video_store' = IF created THEN video_store \cup {VideoName}
                                  ELSE video_store
                /\ IF r.exc = "none"
                   THEN c_pc' = "finally" /\ UNCHANGED c_exc
                   ELSE StopRaises(r.exc)
  /\ UNCHANGED <<rec_driver, stop, t_pc, count, dir_exists, directory, video_size,
                 stitched, attached_videos, rec_escaped>>
  /\ UNCHANGED <<recordings, stitch_failed, requests, late_requests, video_dir_exists>>
  /\ UNCHANGED <<sessionVars, screenshotVars, configVars, consoleVars>>

\* finally: common_utils.delete_dir(self.__directory); then the method
\* returns, or the exception nothing caught leaves it
stop_recording_finally ==
  /\ c_pc = "finally"
  /\ dir_exists' = delete_dir(ScratchDir).exists
  /\ directory' = delete_dir(ScratchDir).files
  /\ c_pc' = "returned"
  /\ rec_escaped' = IF c_exc = "none"
                    THEN rec_escaped
                    ELSE rec_escaped \cup {"stop_recording_and_stitch_video"}
  /\ UNCHANGED <<rec_driver, stop, t_pc, count, c_exc, video_size, stitched,
                 sort_error, attached_videos, video_store>>
  /\ UNCHANGED <<recordings, stitch_failed, requests, late_requests, video_dir_exists>>
  /\ UNCHANGED <<sessionVars, screenshotVars, configVars, consoleVars>>

NextRecorder ==
  \/ start_capturing_mkdir
  \/ start_capturing_save
  \/ save_screenshot_never_returns
  \/ start_capturing_check
  \/ stop_recording_set_stop
  \/ stop_recording_join
  \/ get_video_resize_resolution
  \/ stop_recording_stitch
  \/ stop_recording_attach
  \/ stop_recording_keep
  \/ stop_recording_finally

\* a recording is active: its thread is alive or its scratch directory is
\* not purged
RecordingActive == t_pc \in {"start", "save", "check", "hung"} \/ dir_exists

\* pytest sets the next test up once the finalizers of the test before have
\* returned, stop_recording_and_stitch_video among them
finalizer_returned == c_pc = "returned"

\* _video_capture at the setup of the next test, the gate permitting: a new
\* ScreenRecorder, its thread started on start_capturing with the content of
\* the test's driver slot (a driver if a fixture set up before registered
\* one) and its stop_recording_and_stitch_video registered as finalizer
video_capture_next_test ==
  /\ finalizer_returned
  /\ c_pc # "registered"
  /\ recordings < MaxRecordings
  /\ recordings' = recordings + 1
  /\ local_driver' \in {"None", "driver"}
  /\ rec_driver' = local_driver'
  /\ stop' = FALSE
  /\ t_pc' = "start"
  /\ count' = 0
  /\ c_pc' = "registered"
  /\ c_exc' = "none"
  /\ video_size' = <<>>
  /\ stitched' = <<>>
  /\ sort_error' = FALSE
  /\ stitch_failed' = FALSE
  /\ requests' = 0
  /\ late_requests' = 0
  /\ video_dir_exists' = TRUE
  /\ attached_videos' = 0
  /\ UNCHANGED <<dir_exists, directory, video_store, rec_escaped>>
  /\ UNCHANGED <<report_options, currently_applicable_reports, wrapper_installed,
                 phase, ops_done, pending_op, attachments, escaped, omitted,
                 step_failed, recorder_thread, finalizers>>
  /\ UNCHANGED <<screenshotVars, configVars, consoleVars>>

NextRecordedTests ==
  \/ NextRecorder
  \/ video_capture_next_test
  \/ enhanced_driver_getter

(***************************************************************************)
(* Screenshot capture followed step by step (screenshot_manager.py), the   *)
(* dispatch of its result to the report modules (core.py) and the session  *)
(* teardown of the output directories.                                     *)
(***************************************************************************)
\* the option dictionaries of these runs: keep_screenshots varies
ScreenshotOptions ==
  [JS_LOG_FREQUENCY : {"FAILED_TEST_ONLY"}, SS_FREQUENCY : {"ALWAYS"},
   SS_HIGHLIGHT_ELEMENT : {TRUE}, VIDEO_ENABLED : {FALSE}, SS_KEEP_FILES : BOOLEAN,
   VIDEO_KEEP_FILES : BOOLEAN, VIDEO_WIDTH : {0}, VIDEO_HEIGHT : {0},
   VIDEO_RESIZE_PERCENT : {75}]

\* what _reports can register when a second module lies under report_libs/:
\* pkgutil lists the modules by name, each is kept if its plugin is installed
ScreenshotReportLists ==
  {<<>>, <<"allure_pytest_bdd">>, <<"second_report_lib">>,
   <<"allure_pytest_bdd", "second_report_lib">>}

\* style attributes the element may carry on the page
ElementStyles == {"", "color: blue"}

\* "border: {0}px solid {1}; padding:{2}px".format(border_width, color, 5)
HighlightStyle == "border: 5px solid red; padding:5px"

\* the session is set up (_global_config made the screenshot directory),
\* a test is running and no capture is under way
InitScreenshot ==
  /\ report_options \in ScreenshotOptions
  /\ currently_applicable_reports \in ScreenshotReportLists
  /\ wrapper_installed = TRUE
  /\ phase = "running"
  /\ ops_done = 0
  /\ pending_op = "none"
  /\ local_driver = "driver"
  /\ attachments = <<>>
  /\ escaped = {}
  /\ omitted = {}
  /\ step_failed = FALSE
  /\ recorder_thread = "None"
  /\ finalizers = <<>>
  /\ RecorderNotCreated
  /\ ss_pc = "idle"
  /\ ss_caller = "none"
  /\ element_style \in ElementStyles
  /\ original_style = "None"
  /\ style_applied = FALSE
  /\ alert_seen = FALSE
  /\ ss_faulted = FALSE
  /\ driver_commands = <<>>
  /\ ss_path = "None"
  /\ ss_dir_exists = TRUE
  /\ ss_files = {}
  /\ ss_originals = {}
  /\ ss_generated = {}
  /\ dispatch_index = 0
  /\ invocations = <<>>
  /\ captures = 0
  /\ ss_escaped = {}
  /\ cleanup_error = FALSE
  /\ ConfigNotInUse
  /\ ConsoleNotInUse

\* a capturer is entered: nothing of the previous capture remains
CapturerCalled(capturer, first_step) ==
  /\ captures' = captures + 1
  /\ ss_caller' = capturer
  /\ ss_pc' = first_step
  /\ original_style' = "None"
  /\ style_applied' = FALSE
  /\ alert_seen' = FALSE
  /\ ss_faulted' = FALSE
  /\ driver_commands' = <<>>
  /\ ss_path' = "None"
  /\ dispatch_index' = 0
  /\ invocations' = <<>>
  /\ attachments' = <<>>
  /\ UNCHANGED <<element_style, ss_dir_exists, ss_files, ss_originals, ss_generated,
                 ss_escaped, cleanup_error>>
  /\ UNCHANGED <<recorderVars, configVars, consoleVars>>
  /\ UNCHANGED <<report_options, currently_applicable_reports, wrapper_installed,
                 phase, ops_done, pending_op, local_driver, escaped, omitted,
                 step_failed, recorder_thread, finalizers>>

\* __capture_ss calls screenshot_manager.get_screenshot
get_screenshot_call ==
  /\ ss_pc \in {"idle", "dispatched"}
  /\ captures < MaxCaptures
  /\ CapturerCalled("get_screenshot", "alert_check")

\* screenshot_manager.get_highlighted_screenshot is called on an element
get_highlighted_screenshot_call ==
  /\ ss_pc \in {"idle", "dispatched"}
  /\ captures < MaxCaptures
  /\ CapturerCalled("get_highlighted_screenshot", "get_attribute")

\* the variables no step inside a capturer changes
CapturerFrame ==
  /\ UNCHANGED <<ss_caller, dispatch_index, invocations, captures, ss_escaped,
                 cleanup_error>>
  /\ UNCHANGED <<recorderVars, configVars, consoleVars>>
  /\ UNCHANGED sessionVars

\* the decorated get_screenshot is left with the outcome call: control is
\* back in get_highlighted_screenshot, or in the caller of get_screenshot
GetScreenshotReturns(call) ==
  /\ ss_path' = fail_silently(call)
  /\ ss_faulted' = (ss_faulted \/ call.raised)
  /\ ss_pc' = IF ss_caller = "get_highlighted_screenshot" THEN "restore" ELSE "returned"

\* the decorated get_highlighted_screenshot is left because a call raised
GetHighlightedScreenshotRaises ==
  /\ ss_path' = fail_silently(Raised)
  /\ ss_faulted' = TRUE
  /\ ss_pc' = "returned"

\* original_style = element.get_attribute("style")
highlight_get_attribute ==
  /\ ss_pc = "get_attribute"
  /\ driver_commands' = Append(driver_commands, "get_attribute")
  /\ \/ /\ original_style' = element_style
        /\ ss_pc' = "apply_style"
        /\ UNCHANGED <<ss_path, ss_faulted>>
     \/ /\ GetHighlightedScreenshotRaises
        /\ UNCHANGED original_style
  /\ UNCHANGED <<element_style, style_applied, alert_seen, ss_dir_exists, ss_files,
                 ss_originals, ss_generated>>
  /\ CapturerFrame

\* apply_style("border: ..."): driver.execute_script sets the attribute
highlight_apply_style ==
  /\ ss_pc = "apply_style"
  /\ driver_commands' = Append(driver_commands, "execute_script")
  /\ \/ /\ element_style' = HighlightStyle
        /\ style_applied' = TRUE
        /\ ss_pc' = "alert_check"
        /\ UNCHANGED <<ss_path, ss_faulted>>
     \/ /\ GetHighlightedScreenshotRaises
        /\ UNCHANGED <<element_style, style_applied>>
  /\ UNCHANGED <<original_style, alert_seen, ss_dir_exists, ss_files, ss_originals,
                 ss_generated>>
  /\ CapturerFrame

\* a get_screenshot that requests the screenshot whatever the check says
request_despite_alert(alert) == "request"

\* get_screenshot: if alert_is_present()(driver): return ""
skip_if_alert(alert) == IF alert THEN "return" ELSE "request"

\* get_screenshot: expected_conditions.alert_is_present()(driver), which
\* asks the driver for the alert
screenshot_alert_check ==
  /\ ss_pc = "alert_check"
  /\ driver_commands' = Append(driver_commands, "switch_to.alert")
  /\ \/ \E alert \in BOOLEAN :
          /\ alert_seen' = alert
          /\ IF skip_if_alert(alert) = "return"
             THEN GetScreenshotReturns(Returned(""))
             ELSE /\ ss_pc' = "screenshot"
                  /\ UNCHANGED <<ss_path, ss_faulted>>
     \/ /\ GetScreenshotReturns(Raised)
        /\ UNCHANGED alert_seen
  /\ UNCHANGED <<element_style, original_style, style_applied, ss_dir_exists, ss_files,
                 ss_originals, ss_generated>>
  /\ CapturerFrame

\* get_screenshot: driver.get_screenshot_as_base64()
screenshot_request ==
  /\ ss_pc = "screenshot"
  /\ driver_commands' = Append(driver_commands, "get_screenshot_as_base64")
  /\ \/ /\ ss_pc' = "resize"
        /\ UNCHANGED <<ss_path, ss_faulted>>
     \/ GetScreenshotReturns(Raised)
  /\ UNCHANGED <<element_style, original_style, style_applied, alert_seen,
                 ss_dir_exists, ss_files, ss_originals, ss_generated>>
  /\ CapturerFrame

\* the name __get_resized_image builds from the timestamp of capture n
OriginalName(n) == Str(n) \o PngExt

\* <clean scenario name>_<timestamp>.png in the screenshot directory
ResizedName(n) == <<"s", "_">> \o Str(n) \o PngExt

\* what __get_resized_image wrote when it got as far as its step reached
ImagesWritten(n, keep, resized) ==
  (IF keep THEN {[dir |-> "scenario_subdir", name |-> OriginalName(n)]} ELSE {})
    \cup (IF resized THEN {[dir |-> "screenshot_dir", name |-> ResizedName(n)]} ELSE {})

\* __get_resized_image: decode, keep the original if asked to, resize, save
get_resized_image ==
  /\ ss_pc = "resize"
  /\ \E fault \in {"none", "decode", "save_original", "save_resized"} :
       LET keep == report_options.SS_KEEP_FILES
           written == CASE fault = "none" -> ImagesWritten(captures, keep, TRUE)
                        [] fault = "save_resized" -> ImagesWritten(captures, keep, FALSE)
                        [] OTHER -> {}
       IN  /\ fault = "save_original" => keep
           /\ ss_originals' = ss_originals
                \cup {w.name : w \in {x \in written : x.dir = "scenario_subdir"}}
           /\ ss_files' = ss_files
                \cup {w.name : w \in {x \in written : x.dir = "screenshot_dir"}}
           /\ ss_generated' = ss_generated \cup written
           /\ GetScreenshotReturns(IF fault = "none" THEN Returned("path") ELSE Raised)
  /\ UNCHANGED <<element_style, original_style, style_applied, alert_seen,
                 driver_commands, ss_dir_exists>>
  /\ CapturerFrame

\* apply_style(original_style), then return path
highlight_restore_style ==
  /\ ss_pc = "restore"
  /\ driver_commands' = Append(driver_commands, "execute_script")
  /\ \/ /\ element_style' = original_style
        /\ ss_pc' = "returned"
        /\ UNCHANGED <<ss_path, ss_faulted>>
     \/ /\ GetHighlightedScreenshotRaises
        /\ UNCHANGED element_style
  /\ UNCHANGED <<original_style, style_applied, alert_seen, ss_dir_exists, ss_files,
                 ss_originals, ss_generated>>
  /\ CapturerFrame

\* a handler for file-system errors of the attach functions only
report_data_handler_catches_io_errors(exc) == exc \in {"OSError", "FileNotFoundError"}

\* except Exception of __report_data_handler
report_data_handler_catches(exc) == exc \in ExceptionClasses

\* __capture_ss after the capturer returned: if path: __report_data_handler(...)
capture_ss_attach ==
  /\ ss_pc = "returned"
  /\ IF TruthyStr(ss_path)
     THEN /\ dispatch_index' = 1
          /\ ss_pc' = IF currently_applicable_reports = <<>> THEN "dispatched" ELSE "dispatch"
     ELSE /\ dispatch_index' = 0
          /\ ss_pc' = "idle"
  /\ UNCHANGED <<ss_caller, element_style, original_style, style_applied, alert_seen,
                 ss_faulted, driver_commands, ss_path, ss_dir_exists, ss_files,
                 ss_originals, ss_generated, invocations, captures, ss_escaped,
                 cleanup_error>>
  /\ UNCHANGED <<recorderVars, configVars, consoleVars>>
  /\ UNCHANGED sessionVars

\* one turn of the loop of __report_data_handler: getattr(report_mod,
\* "attach_image")(name, path), which attaches, or raises exc (AttributeError
\* when the module has no such function)
report_data_handler_turn ==
  /\ ss_pc = "dispatch"
  /\ LET report_mod == currently_applicable_reports[dispatch_index]
         attachment_type == IF ss_caller = "get_highlighted_screenshot"
                            THEN "SS_WITH_HIGHLIGHT" ELSE "SS"
     IN  /\ invocations' = Append(invocations, report_mod)
         /\ \E exc \in {"none", "AttributeError", "OSError"} :
              /\ attachments' =
                   attachments \o AttachTo(report_mod, attachment_type, "Screenshot",
                                           "after click",
                                           IF exc = "none" THEN {} ELSE {report_mod})
              /\ IF exc # "none" /\ ~report_data_handler_catches(exc)
                 THEN /\ ss_escaped' = ss_escaped \cup {"__report_data_handler"}
                      /\ ss_pc' = "dispatched"
                      /\ UNCHANGED dispatch_index
                 ELSE /\ dispatch_index' = dispatch_index + 1
                      /\ ss_pc' = IF dispatch_index = Len(currently_applicable_reports)
                                  THEN "dispatched" ELSE "dispatch"
                      /\ UNCHANGED ss_escaped
  /\ UNCHANGED <<ss_caller, element_style, original_style, style_applied, alert_seen,
                 ss_faulted, driver_commands, ss_path, ss_dir_exists, ss_files,
                 ss_originals, ss_generated, captures, cleanup_error>>
  /\ UNCHANGED <<recorderVars, configVars, consoleVars>>
  /\ UNCHANGED <<report_options, currently_applicable_reports, wrapper_installed,
                 phase, ops_done, pending_op, local_driver, escaped, omitted,
                 step_failed, recorder_thread, finalizers>>

\* extension of the files common_utils.delete_files removes by default
DefaultExtension == <<"p", "n", "g">>

\* common_utils.delete_files(img_dir) on the names os.listdir(img_dir) gives:
\* the entries not ending in extension stay
delete_files(names, extension) == {f \in names : ~EndsWith(f, extension)}

\* _global_config.remove_test_dir, the session's finalizer; os.remove or
\* os.rmdir may raise inside it, which ends the clean-up there
remove_test_dir ==
  /\ ss_pc \in {"idle", "dispatched"}
  /\ ss_pc' = "session_ended"
  /\ \E fault \in {"none", "video_dir", "screenshot_dir"} :
       /\ cleanup_error' = (fault # "none")
       /\ video_store' = IF ~report_options.VIDEO_KEEP_FILES /\ fault # "video_dir"
                         THEN {} ELSE video_store
       /\ video_dir_exists' = IF ~report_options.VIDEO_KEEP_FILES /\ fault # "video_dir"
                              THEN FALSE ELSE video_dir_exists
       /\ IF fault # "none"
          THEN UNCHANGED <<ss_dir_exists, ss_files, ss_originals>>
          ELSE IF ~report_options.SS_KEEP_FILES
          THEN /\ ss_dir_exists' =
                    delete_dir([exists |-> ss_dir_exists, files |-> ss_files]).exists
               /\ ss_files' =
                    delete_dir([exists |-> ss_dir_exists, files |-> ss_files]).files
               /\ ss_originals' =
                    delete_dir([exists |-> ss_dir_exists, files |-> ss_originals]).files
          ELSE /\ ss_files' = IF ss_dir_exists
                              THEN delete_files(ss_files, DefaultExtension)
                              ELSE ss_files
               /\ UNCHANGED <<ss_dir_exists, ss_originals>>
  /\ UNCHANGED <<ss_caller, element_style, original_style, style_applied, alert_seen,
                 ss_faulted, driver_commands, ss_path, ss_generated, dispatch_index,
                 invocations, captures, ss_escaped>>
  /\ UNCHANGED <<rec_driver, stop, t_pc, count, dir_exists, directory, c_pc, c_exc,
                 video_size, stitched, sort_error, attached_videos, rec_escaped,
                 recordings, stitch_failed, requests, late_requests>>
  /\ UNCHANGED <<sessionVars, configVars, consoleVars>>

NextScreenshot ==
  \/ get_screenshot_call
  \/ get_highlighted_screenshot_call
  \/ highlight_get_attribute
  \/ highlight_apply_style
  \/ screenshot_alert_check
  \/ screenshot_request
  \/ get_resized_image
  \/ highlight_restore_style
  \/ capture_ss_attach
  \/ report_data_handler_turn
  \/ remove_test_dir

(***************************************************************************)
(* The output directories over a session (core.py, _global_config): they   *)
(* may exist before the session, with files of the user in them.           *)
(***************************************************************************)
\* the option dictionaries of these runs: the policies that decide about
\* the directories vary
SessionDirOptions ==
  [JS_LOG_FREQUENCY : {"NEVER"}, SS_FREQUENCY : {"NEVER", "ALWAYS"},
   SS_HIGHLIGHT_ELEMENT : {FALSE}, VIDEO_ENABLED : BOOLEAN, SS_KEEP_FILES : BOOLEAN,
   VIDEO_KEEP_FILES : BOOLEAN, VIDEO_WIDTH : {0}, VIDEO_HEIGHT : {0},
   VIDEO_RESIZE_PERCENT : {75}]

\* files lying in the screenshot directory before the session
EarlierImages == {<<"l", "o", "g", "o">> \o PngExt, <<"n", "o", "t", "e", "s">>}

\* files lying in the video directory before the session
EarlierVideos == {<<"d", "e", "m", "o">> \o WebmExt}

\* the session starts: _report_options is resolved, _global_config not yet run
InitSessionDirs ==
  /\ report_options \in SessionDirOptions
  /\ currently_applicable_reports \in ReportLists
  /\ wrapper_installed = FALSE
  /\ phase = "session_setup"
  /\ ops_done = 0
  /\ pending_op = "none"
  /\ local_driver = "None"
  /\ attachments = <<>>
  /\ escaped = {}
  /\ omitted = {}
  /\ step_failed = FALSE
  /\ recorder_thread = "None"
  /\ finalizers = <<>>
  /\ rec_driver = "None"
  /\ stop = FALSE
  /\ t_pc = "none"
  /\ count = 0
  /\ dir_exists = FALSE
  /\ directory = {}
  /\ c_pc = "none"
  /\ c_exc = "none"
  /\ video_size = <<>>
  /\ stitched = <<>>
  /\ sort_error = FALSE
  /\ attached_videos = 0
  /\ video_dir_exists \in BOOLEAN
  /\ video_store \in (IF video_dir_exists THEN SUBSET EarlierVideos ELSE {{}})
  /\ rec_escaped = {}
  /\ recordings = 0
  /\ stitch_failed = FALSE
  /\ requests = 0
  /\ late_requests = 0
  /\ ss_pc = "session_setup"
  /\ ss_caller = "none"
  /\ element_style = ""
  /\ original_style = "None"
  /\ style_applied = FALSE
  /\ alert_seen = FALSE
  /\ ss_faulted = FALSE
  /\ driver_commands = <<>>
  /\ ss_path = "None"
  /\ ss_dir_exists \in BOOLEAN
  /\ ss_files \in (IF ss_dir_exists THEN SUBSET EarlierImages ELSE {{}})
  /\ ss_originals = {}
  /\ ss_generated = {}
  /\ dispatch_index = 0
  /\ invocations = <<>>
  /\ captures = 0
  /\ ss_escaped = {}
  /\ cleanup_error = FALSE
  /\ ConfigNotInUse
  /\ ConsoleNotInUse

\* common_utils.mkdir, os.makedirs(dir_name, exist_ok=True): whether or not
\* the directory existed, it exists afterwards
mkdir(exists) == TRUE

\* _global_config up to its yield: remove_test_dir is registered as
\* finalizer, the screenshot directory is made unless the screenshot policy
\* is NEVER, the video directory is made if video recording is enabled
global_config ==
  /\ ss_pc = "session_setup"
  /\ ss_pc' = "idle"
  /\ ss_dir_exists' = IF report_options.SS_FREQUENCY # "NEVER"
                      THEN mkdir(ss_dir_exists) ELSE ss_dir_exists
  /\ video_dir_exists' = IF report_options.VIDEO_ENABLED
                         THEN mkdir(video_dir_exists) ELSE video_dir_exists
  /\ UNCHANGED <<ss_caller, element_style, original_style, style_applied, alert_seen,
                 ss_faulted, driver_commands, ss_path, ss_files, ss_originals,
                 ss_generated, dispatch_index, invocations, captures, ss_escaped,
                 cleanup_error>>
  /\ UNCHANGED <<rec_driver, stop, t_pc, count, dir_exists, directory, c_pc, c_exc,
                 video_size, stitched, sort_error, attached_videos, video_store,
                 rec_escaped, recordings, stitch_failed, requests, late_requests>>
  /\ UNCHANGED <<sessionVars, configVars, consoleVars>>

NextSessionDirs ==
  \/ global_config
  \/ remove_test_dir

(***************************************************************************)
(* Resolution of the parameters (config.py): two of them are followed, one *)
(* without a cast and one cast to bool.                                    *)
(***************************************************************************)
PyNone == [type |-> "NoneType", v |-> "None"]

PyStr(text) == [type |-> "str", v |-> text]

ConfigParameters == {"SS_DIR", "SS_KEEP_FILES"}

\* __params[parameter]["default_value"]
default_value(parameter) ==
  IF parameter = "SS_DIR" THEN PyStr("reports/screenshots") ELSE PyBool(FALSE)

\* __params[parameter]["cast_to"](value) where the entry has a cast
cast_to(parameter, value) ==
  IF parameter = "SS_KEEP_FILES" THEN PyBool(Truthy(value)) ELSE value

\* what --report_<name> can hold: None when the option is absent, else the
\* string given, which may be empty
CmdLineValues(parameter) ==
  IF parameter = "SS_DIR"
  THEN {PyNone, PyStr(""), PyStr("out/cmdline")}
  ELSE {PyNone, PyStr(""), PyStr("True"), PyStr("False")}

\* what REPORT_<NAME> can hold: None stands for a variable that is not set
EnvironValues(parameter) ==
  IF parameter = "SS_DIR"
  THEN {PyNone, PyStr(""), PyStr("out/environ")}
  ELSE {PyNone, PyStr(""), PyStr("True"), PyStr("False")}

\* the value config._get_value picks before the cast, for the option value
\* cmd_line and the variable env_var
value_before_cast(parameter, cmd_line, env_var) ==
  LET val_from_env_var == IF env_var = PyNone THEN default_value(parameter) ELSE env_var
      val_from_cmd_line == cmd_line
  IN  IF Truthy(val_from_cmd_line) THEN val_from_cmd_line ELSE val_from_env_var

\* config._get_value for the option value cmd_line and the variable env_var
get_value_of(parameter, cmd_line, env_var) ==
  cast_to(parameter, value_before_cast(parameter, cmd_line, env_var))

\* pytest has parsed the command line; nothing is resolved yet
InitConfig ==
  /\ report_options \in
       [JS_LOG_FREQUENCY : {"FAILED_TEST_ONLY"}, SS_FREQUENCY : {"FAILED_TEST_ONLY"},
        SS_HIGHLIGHT_ELEMENT : {FALSE}, VIDEO_ENABLED : {FALSE}, SS_KEEP_FILES : {FALSE},
        VIDEO_KEEP_FILES : {FALSE}, VIDEO_WIDTH : {0}, VIDEO_HEIGHT : {0},
        VIDEO_RESIZE_PERCENT : {75}]
  /\ currently_applicable_reports = <<>>
  /\ wrapper_installed = FALSE
  /\ phase = "session_setup"
  /\ ops_done = 0
  /\ pending_op = "none"
  /\ local_driver = "None"
  /\ attachments = <<>>
  /\ escaped = {}
  /\ omitted = {}
  /\ step_failed = FALSE
  /\ recorder_thread = "None"
  /\ finalizers = <<>>
  /\ RecorderNotCreated
  /\ ScreenshotNotInUse
  /\ param_values = <<>>
  /\ environ \in [ConfigParameters -> UNION {EnvironValues(p) : p \in ConfigParameters}]
  /\ \A p \in ConfigParameters : environ[p] \in EnvironValues(p)
  /\ cmdline \in [ConfigParameters -> UNION {CmdLineValues(p) : p \in ConfigParameters}]
  /\ \A p \in ConfigParameters : cmdline[p] \in CmdLineValues(p)
  /\ resolved_from = <<>>
  /\ returned = <<>>
  /\ lookups = 0
  /\ config_escaped = {}
  /\ ConsoleNotInUse

\* the variables no function of config.py changes
ConfigFrame ==
  /\ UNCHANGED sessionVars
  /\ UNCHANGED recorderVars
  /\ UNCHANGED screenshotVars
  /\ UNCHANGED consoleVars

\* config.get_all_values(request): the cached mapping if it is not empty,
\* else every parameter resolved from this request and the environment
get_all_values ==
  /\ lookups < MaxLookups
  /\ lookups' = lookups + 1
  /\ IF param_values # <<>>
     THEN /\ returned' = param_values
          /\ UNCHANGED <<param_values, resolved_from>>
     ELSE /\ param_values' =
               [p \in ConfigParameters |-> get_value_of(p, cmdline[p], environ[p])]
          /\ returned' = param_values'
          /\ resolved_from' = [cmd_line |-> cmdline, env |-> environ]
  /\ UNCHANGED <<environ, cmdline, config_escaped>>
  /\ ConfigFrame

\* config.get_value(parameter) with its default request=None: the cached
\* mapping answers, or request.config raises on None
get_value ==
  /\ lookups < MaxLookups
  /\ lookups' = lookups + 1
  /\ IF param_values # <<>>
     THEN /\ returned' = param_values
          /\ UNCHANGED config_escaped
     ELSE /\ config_escaped' = config_escaped \cup {"get_value"}
          /\ UNCHANGED returned
  /\ UNCHANGED <<param_values, environ, cmdline, resolved_from>>
  /\ ConfigFrame

\* the process changes one of its environment variables
setenv ==
  /\ \E p \in ConfigParameters : \E value \in EnvironValues(p) :
       /\ value # environ[p]
       /\ environ' = [environ EXCEPT ![p] = value]
  /\ UNCHANGED <<param_values, cmdline, resolved_from, returned, lookups, config_escaped>>
  /\ ConfigFrame

\* a lookup is made with a request object whose options differ
other_request ==
  /\ \E p \in ConfigParameters : \E value \in CmdLineValues(p) :
       /\ value # cmdline[p]
       /\ cmdline' = [cmdline EXCEPT ![p] = value]
  /\ UNCHANGED <<param_values, environ, resolved_from, returned, lookups, config_escaped>>
  /\ ConfigFrame

NextConfig ==
  \/ get_all_values
  \/ get_value
  \/ setenv
  \/ other_request

(***************************************************************************)
(* Formatting of the browser's console log (browser_console_manager.py).   *)
(* Strings are sequences of characters.                                    *)
(***************************************************************************)
\* a number as Python holds it
PyNumber(n) == [type |-> "int", v |-> n]

\* timestamps, in milliseconds, the driver stamps an entry with; an entry
\* may come without one
Timestamps == {PyNone, PyNumber(1500), PyNumber(3725000)}

Levels == {PyStr(<<"I", "N", "F", "O">>), PyStr(<<"S", "E", "V", "E", "R", "E">>)}

\* an entry may come without a source
Sources == {PyNone, PyStr(<<"c", "o", "n", "s", "o", "l", "e", "-", "a", "p", "i">>)}

\* message texts, each on one line
Messages == {PyStr(<<"h", "i">>), PyStr(<<"a", " ", "b">>)}

\* the entries of the log buffer, as driver.get_log("browser") returns them
LogEntries ==
  [timestamp : Timestamps, level : Levels, source : Sources, message : Messages]

\* the log buffers of at most n entries
LogBuffers(n) == UNION {[1..k -> LogEntries] : k \in 0..n}

\* item.get("timestamp", 0)
get_timestamp(item) == IF item.timestamp = PyNone THEN 0 ELSE item.timestamp.v

\* a number below 100 in two digits
TwoDigits(n) == <<DigitChars[(n \div 10) + 1], DigitChars[(n % 10) + 1]>>

\* datetime.fromtimestamp(seconds).strftime("%Y-%m-%d %H:%M:%S") within the
\* first day of the epoch, the local time zone being UTC
strftime(seconds) ==
  <<"1", "9", "7", "0", "-", "0", "1", "-", "0", "1", " ">>
    \o TwoDigits(seconds \div 3600) \o <<":">>
    \o TwoDigits((seconds % 3600) \div 60) \o <<":">>
    \o TwoDigits(seconds % 60)

\* str(value) as str.format renders a field
FormatField(value) == IF value = PyNone THEN <<"N", "o", "n", "e">> ELSE value.v

\* an entry rendered source first and without a line end
format_item_source_first(item) ==
  FormatField(item.source) \o <<" ">> \o strftime(get_timestamp(item) \div 1000)
    \o <<" ">> \o FormatField(item.level) \o <<" ">> \o FormatField(item.message)

\* "{} {} {} {}\n".format(i_time, i_level, i_source, i_message)
format_item(item) ==
  LET i_time == strftime(get_timestamp(item) \div 1000)
      i_source == item.source
      i_level == item.level
      i_message == item.message
  IN  i_time \o <<" ">> \o FormatField(i_level) \o <<" ">> \o FormatField(i_source)
        \o <<" ">> \o FormatField(i_message) \o <<"\n">>

\* get_js_logs has fetched the log buffer and enters _format_outputs
InitConsole ==
  /\ report_options \in
       [JS_LOG_FREQUENCY : {"ALWAYS"}, SS_FREQUENCY : {"NEVER"},
        SS_HIGHLIGHT_ELEMENT : {FALSE}, VIDEO_ENABLED : {FALSE}, SS_KEEP_FILES : {FALSE},
        VIDEO_KEEP_FILES : {FALSE}, VIDEO_WIDTH : {0}, VIDEO_HEIGHT : {0},
        VIDEO_RESIZE_PERCENT : {75}]
  /\ currently_applicable_reports = <<>>
  /\ wrapper_installed = FALSE
  /\ phase = "running"
  /\ ops_done = 0
  /\ pending_op = "none"
  /\ local_driver = "driver"
  /\ attachments = <<>>
  /\ escaped = {}
  /\ omitted = {}
  /\ step_failed = FALSE
  /\ recorder_thread = "None"
  /\ finalizers = <<>>
  /\ RecorderNotCreated
  /\ ScreenshotNotInUse
  /\ ConfigNotInUse
  /\ driver_logs \in LogBuffers(MaxEntries)
  /\ log_index = 1
  /\ output = <<>>
  /\ format_pc = "loop"

\* the variables _format_outputs does not touch
ConsoleFrame ==
  /\ UNCHANGED sessionVars
  /\ UNCHANGED recorderVars
  /\ UNCHANGED screenshotVars
  /\ UNCHANGED configVars

\* one turn of for item in logs: output += "...".format(...)
format_outputs_item ==
  /\ format_pc = "loop"
  /\ log_index <= Len(driver_logs)
  /\ output' = output \o format_item(driver_logs[log_index])
  /\ log_index' = log_index + 1
  /\ UNCHANGED <<driver_logs, format_pc>>
  /\ ConsoleFrame

\* the loop is exhausted: return output
format_outputs_return ==
  /\ format_pc = "loop"
  /\ log_index > Len(driver_logs)
  /\ format_pc' = "returned"
  /\ UNCHANGED <<driver_logs, log_index, output>>
  /\ ConsoleFrame

NextConsole ==
  \/ format_outputs_item
  \/ format_outputs_return

Next ==
  \/ create_wrappers
  \/ video_capture
  \/ enhanced_driver_getter
  \/ after_navigate_to
  \/ before_click
  \/ after_click
  \/ before_change_value_of
  \/ after_change_value_of
  \/ after_execute_script
  \/ after_navigate_back
  \/ wrap_action_chains_perform_method
  \/ pytest_bdd_step_error
  \/ pytest_bdd_after_scenario
  \/ teardown

vars == <<sessionVars, recorderVars, screenshotVars, configVars, consoleVars>>

Spec == Init /\ [][Next]_vars

SpecRecorder == InitRecorder /\ [][NextRecorder]_vars

\* the Recorder thread is scheduled again and again, and the finalizer, once
\* it has set the flag, goes on whenever it can
SpecRecorderFair ==
  /\ SpecRecorder
  /\ WF_vars(start_capturing_mkdir)
  /\ WF_vars(start_capturing_save)
  /\ WF_vars(start_capturing_check)
  /\ WF_vars(stop_recording_join)
  /\ WF_vars(get_video_resize_resolution)
  /\ WF_vars(stop_recording_stitch)
  /\ WF_vars(stop_recording_attach)
  /\ WF_vars(stop_recording_keep)
  /\ WF_vars(stop_recording_finally)

SpecRecordedTests == InitRecorder /\ [][NextRecordedTests]_vars

SpecScreenshot == InitScreenshot /\ [][NextScreenshot]_vars

SpecConfig == InitConfig /\ [][NextConfig]_vars

SpecSessionDirs == InitSessionDirs /\ [][NextSessionDirs]_vars

SpecConsole == InitConsole /\ [][NextConsole]_vars

(***************************************************************************)
(* Properties.                                                             *)
(***************************************************************************)
\* the allow-sets as the specification lists them
AllowSet(state) ==
  CASE state = "BEFORE_TEST" -> {"ALWAYS"}
    [] state \in {"BEFORE_UI_OPERATION", "AFTER_UI_OPERATION"} ->
         {"ALWAYS", "EACH_UI_OPERATION"}
    [] state \in {"AFTER_TEST", "PASSED"} -> {"ALWAYS", "END_OF_EACH_TEST"}
    [] state \in {"ERROR", "FAILED"} -> {"ALWAYS", "END_OF_EACH_TEST", "FAILED_TEST_ONLY"}
    [] state \in {"SKIPPED", "CUSTOM_DURING_TEST"} -> {}

\* attachments of the current test carrying a label
CountLabel(label) ==
  Cardinality({i \in DOMAIN attachments : attachments[i].label = label})

\* a test has been set up and not yet torn down
InTest == phase \in {"running", "raising", "step_error_done", "finished"}

\* C1: in every lifecycle state the gate permits SCREENSHOT_HIGHLIGHTED iff
\* the highlight flag is on and the screenshot frequency is in the state's
\* allow-set (so with FAILED_TEST_ONLY and the flag on: not after a UI
\* operation, but in state FAILED).
C1_HighlightGate ==
  \A state \in EnhancedReportTestState :
    can_record("SS_WITH_HIGHLIGHT", state)
      <=> (report_options.SS_HIGHLIGHT_ELEMENT
           /\ report_options.SS_FREQUENCY \in AllowSet(state))

\* C2: once a test is set up, the recorder thread is started and the
\* stop-and-stitch finalizer registered if the video flag is on, and neither
\* exists if it is off.
C2_VideoFixture ==
  InTest =>
    IF report_options.VIDEO_ENABLED
    THEN recorder_thread = "started"
         /\ finalizers = <<"stop_recording_and_stitch_video">>
    ELSE recorder_thread = "None" /\ finalizers = <<>>

\* the number a frame file's name ends in, before the extension
NumericSuffix(name) ==
  LET root == SplitextRoot(name)
      first == CHOOSE i \in 1..(Len(root) + 1) :
                 /\ \A j \in i..Len(root) : IsDigit(root[j])
                 /\ i > 1 => ~IsDigit(root[i - 1])
  IN  DecimalValue(SubSeq(root, first, Len(root)))

\* C3: the ordering step of stitching never fails on the frame files the
\* capture loop wrote, and the frames go into the video in increasing order
\* of their numeric suffix.
C3_StitchOrder ==
  /\ ~sort_error
  /\ \A i, j \in DOMAIN stitched :
       i < j => NumericSuffix(stitched[i]) < NumericSuffix(stitched[j])

\* both policies FAILED_TEST_ONLY, one sink, and the scenario is over
FailedOnlyTestOver ==
  /\ phase = "finished"
  /\ report_options.SS_FREQUENCY = "FAILED_TEST_ONLY"
  /\ report_options.JS_LOG_FREQUENCY = "FAILED_TEST_ONLY"
  /\ Len(currently_applicable_reports) = 1

\* C4 as stated: under FAILED_TEST_ONLY for both policies and one sink, a
\* test with a failed step ends with exactly one screenshot and exactly one
\* console-log attachment, a passing test with none.
C4_FailedOnlyExactlyOne ==
  FailedOnlyTestOver =>
    IF step_failed
    THEN CountLabel("Screenshot") = 1 /\ CountLabel("Logs from browser console") = 1
    ELSE attachments = <<>>

\* C4 as amended: a test with a failed step ends with one screenshot unless
\* its capture or attachment failed (then none) and one console-log
\* attachment unless its capture or attachment failed (then none); a passing
\* test ends with no attachment.
C4_FailedOnlyOneUnlessCaptureFails ==
  FailedOnlyTestOver =>
    IF step_failed
    THEN /\ CountLabel("Screenshot") = IF "SS" \in omitted THEN 0 ELSE 1
         /\ CountLabel("Logs from browser console") = IF "JS_LOG" \in omitted THEN 0 ELSE 1
         /\ Len(attachments) = CountLabel("Screenshot")
                                 + CountLabel("Logs from browser console")
    ELSE attachments = <<>>

\* a failed test under FAILED_TEST_ONLY that performed a UI operation and
\* got both artifacts
C4_Witness ==
  /\ FailedOnlyTestOver
  /\ step_failed
  /\ ops_done > 0
  /\ omitted = {}
  /\ Len(attachments) = 2

\* the value of the parameter governing an artifact type
GoverningValue(attachment_type) ==
  OptionValue(report_options, attachment_and_config(attachment_type))

\* C5: the gate refuses every artifact type in every state when the governing
\* parameter is NEVER or false, and under policy NEVER no screenshot and no
\* console-log attachment is ever made.
C5_NeverMeansNever ==
  /\ \A attachment_type \in EnhancedReportAttachments, state \in EnhancedReportTestState :
       GoverningValue(attachment_type) \in {PyFreq("NEVER"), PyBool(FALSE)}
         => ~can_record(attachment_type, state)
  /\ report_options.SS_FREQUENCY = "NEVER" => CountLabel("Screenshot") = 0
  /\ report_options.JS_LOG_FREQUENCY = "NEVER"
       => CountLabel("Logs from browser console") = 0

\* a failed test with a UI operation is over under policy NEVER for both
C5_Witness ==
  /\ phase = "finished"
  /\ report_options.SS_FREQUENCY = "NEVER"
  /\ report_options.JS_LOG_FREQUENCY = "NEVER"
  /\ currently_applicable_reports # <<>>
  /\ local_driver # "None"
  /\ step_failed
  /\ ops_done > 0

\* C6: for SCREENSHOT and CONSOLE_LOG the gate permits a state iff the
\* configured frequency is in the state's allow-set, the allow-sets being
\* those the specification lists.
C6_GateMatchesAllowSets ==
  \A state \in EnhancedReportTestState :
    /\ can_record("SS", state) <=> report_options.SS_FREQUENCY \in AllowSet(state)
    /\ can_record("JS_LOG", state) <=> report_options.JS_LOG_FREQUENCY \in AllowSet(state)

\* the gate let a screenshot through at ERROR and refused it at AFTER_TEST
C6_Witness ==
  /\ phase = "finished"
  /\ report_options.SS_FREQUENCY = "FAILED_TEST_ONLY"
  /\ report_options.JS_LOG_FREQUENCY = "EACH_UI_OPERATION"
  /\ CountLabel("Screenshot") = 1
  /\ \E i \in DOMAIN attachments : attachments[i].desc = "after click"

\* C7: the caller reads, stitches or purges the scratch directory only after
\* it set the stop flag and the capture thread has terminated.
C7_StitchAfterJoin ==
  /\ c_pc \in {"join", "resize", "stitch", "attach", "keep", "finally", "returned"} => stop
  /\ c_pc \in {"resize", "stitch", "attach", "keep", "finally", "returned"} => t_pc = "done"

\* the caller is about to stitch frames the thread wrote
C7_Witness ==
  /\ c_pc = "stitch"
  /\ FrameName(0) \in directory
  /\ FrameName(1) \in directory

\* C8: when stop-and-stitch has returned, the scratch directory and every
\* file in it are gone.
C8_ScratchPurged ==
  c_pc = "returned" => ~dir_exists /\ directory = {}

\* stop-and-stitch returned after frames were written and stitching failed
C8_Witness ==
  /\ c_pc = "returned"
  /\ count > 1
  /\ sort_error

\* C9: no exception leaves the capture loop or stop-and-stitch.
C9_NothingEscapesRecorder ==
  /\ rec_escaped = {}
  /\ c_pc = "returned" => c_exc = "none"

\* both returned although the driver was absent and no resolution could be
\* computed
C9_Witness ==
  /\ t_pc = "done"
  /\ c_pc = "returned"
  /\ rec_driver = "None"
  /\ video_size = <<>>
  /\ attached_videos = 0

\* C10: no exception leaves a lifecycle hook because fetching the console
\* log failed.
C10_ConsoleLogFailSilent ==
  escaped = {}

\* C11: the ERROR-state capture of the step-error hook never raises, so the
\* failure of the step is what gets reported.
C11_StepErrorHookNeverRaises ==
  "pytest_bdd_step_error" \notin escaped

\* the capturer has returned to its caller
CapturerReturned == ss_pc \in {"returned", "idle", "dispatch", "dispatched", "session_ended"}

\* the names in a sequence of driver commands
CommandsSent == {driver_commands[i] : i \in DOMAIN driver_commands}

\* C12: when a driver, decoding or disk error is raised during a plain or a
\* highlighted screenshot capture, the capturer returns a falsy result, no
\* exception leaves it, and no report module is handed a screenshot for the
\* event.
C12_ScreenshotFailSilent ==
  (ss_faulted /\ CapturerReturned) =>
    /\ ~TruthyStr(ss_path)
    /\ ss_escaped = {}
    /\ invocations = <<>>
    /\ attachments = <<>>

\* a highlighted capture whose screenshot was saved and then lost to an
\* error of the restoring script: nothing was attached
C12_Witness ==
  /\ ss_faulted
  /\ ss_pc = "idle"
  /\ ss_caller = "get_highlighted_screenshot"
  /\ style_applied
  /\ ss_files # {}
  /\ captures = 1

\* C13: when the alert check finds an alert open, no screenshot command is
\* sent to the driver, the capturer returns a falsy result, raises nothing
\* and nothing is attached; the alert check precedes every screenshot
\* request.
C13_AlertSkipsScreenshot ==
  /\ alert_seen =>
       /\ "get_screenshot_as_base64" \notin CommandsSent
       /\ ss_escaped = {}
       /\ CapturerReturned =>
            (~TruthyStr(ss_path) /\ invocations = <<>> /\ attachments = <<>>)
  /\ \A i \in DOMAIN driver_commands :
       driver_commands[i] = "get_screenshot_as_base64" =>
         \E j \in 1..(i - 1) : driver_commands[j] = "switch_to.alert"

\* a highlighted capture met an alert after the style was applied, restored
\* the style and returned the empty string
C13_Witness ==
  /\ alert_seen
  /\ ss_pc = "idle"
  /\ style_applied
  /\ ss_path = ""
  /\ ~ss_faulted

\* C14: after a highlighted capture returned, the style attribute of the
\* element is what it was before the capture, on every path on which the
\* highlight style was applied.
C14_StyleRestored ==
  (CapturerReturned /\ style_applied) => element_style = original_style

\* C15: the dispatcher invokes the attach operation of every registered
\* report module exactly once, in registration order, whatever the earlier
\* ones raised, and no exception leaves the dispatcher.
C15_EverySinkInvokedOnce ==
  /\ ss_escaped = {}
  /\ ss_pc = "dispatch" =>
       invocations = SubSeq(currently_applicable_reports, 1, dispatch_index - 1)
  /\ ss_pc = "dispatched" => invocations = currently_applicable_reports

\* two modules are registered, the first raised and the second attached
C15_Witness ==
  /\ ss_pc = "dispatched"
  /\ Len(currently_applicable_reports) = 2
  /\ Len(invocations) = 2
  /\ Len(attachments) = 1
  /\ attachments[1].sink = currently_applicable_reports[2]

\* C19: with keep_screenshots on, session teardown deletes no image written
\* during the run, neither a resized one nor an original; with it off, the
\* teardown deletes the whole screenshot directory.
C19_KeptScreenshotsSurviveTeardown ==
  (ss_pc = "session_ended" /\ ~cleanup_error) =>
    IF report_options.SS_KEEP_FILES
    THEN \A g \in ss_generated :
           g.name \in (IF g.dir = "screenshot_dir" THEN ss_files ELSE ss_originals)
    ELSE ~ss_dir_exists /\ ss_files = {} /\ ss_originals = {}

\* videos the report module received through its attach_video function
VideosReceivedBy(report_mod) ==
  Cardinality({i \in DOMAIN attachments :
                 attachments[i].sink = report_mod /\ attachments[i].method = "video"})

\* frame files lie in the scratch directory
FramesInScratch == \E f \in directory : EndsWith(f, PngExt)

\* C16: every attached artifact reaches the report through the dispatcher:
\* a stitched video is attached by the attach_video function of each
\* registered report module, and by nothing when no module is registered.
C16_VideoThroughSinks ==
  /\ \A i \in DOMAIN currently_applicable_reports :
       VideosReceivedBy(currently_applicable_reports[i]) = attached_videos
  /\ currently_applicable_reports = <<>> => attached_videos = 0

\* C17: with a driver that answers the screenshot requests, the teardown of
\* a recorded test has built a video from the captured frames and attached
\* it exactly once by the time the stitching is over.
C17_VideoBuiltAndAttachedOnce ==
  (c_pc = "finally" /\ rec_driver = "driver" /\ FramesInScratch) =>
    (stitched # <<>> /\ attached_videos = 1)

\* C18: with keep-videos on and at least one frame captured, the stitching
\* has written <scenario>.webm at native resolution into the persistent
\* video store by the time the scratch directory is about to be purged.
C18_NativeCopyKept ==
  (c_pc = "finally" /\ report_options.VIDEO_KEEP_FILES /\ FramesInScratch) =>
    VideoName \in video_store

\* the layered value the specification gives a parameter: the command-line
\* value when one is given, else the environment variable when set, else
\* the default
LayeredValue(parameter, cmd_line, env_var) ==
  cast_to(parameter,
          IF cmd_line # PyNone THEN cmd_line
          ELSE IF env_var # PyNone THEN env_var
          ELSE default_value(parameter))

\* C20: every parameter resolves to the command-line value when one is
\* given, else to the environment variable when set, else to the default;
\* the mapping is resolved on the first request only and every later lookup
\* returns the same values, whatever has changed since.
C20_LayeredAndCached ==
  param_values # <<>> =>
    /\ \A p \in ConfigParameters :
         param_values[p] = LayeredValue(p, resolved_from.cmd_line[p], resolved_from.env[p])
    /\ returned = param_values

\* the artifact types and states the fixtures, hooks and listeners of a
\* session call the gate with
GateCalls ==
  {<<"VIDEO", "BEFORE_TEST">>, <<"SS_WITH_HIGHLIGHT", "BEFORE_UI_OPERATION">>,
   <<"SS", "AFTER_UI_OPERATION">>, <<"JS_LOG", "AFTER_UI_OPERATION">>,
   <<"SS", "ERROR">>, <<"JS_LOG", "ERROR">>,
   <<"SS", "AFTER_TEST">>, <<"JS_LOG", "AFTER_TEST">>}

LineEnds(text) == {i \in DOMAIN text : text[i] = "\n"}

\* the lines of a text: the pieces its line ends terminate, and what follows
\* the last line end if that is not empty
LinesOf(text) ==
  LET ends == LineEnds(text)
      EndOf(k) == CHOOSE i \in ends : Cardinality({j \in ends : j <= i}) = k
      StartOf(k) == IF k = 1 THEN 1 ELSE EndOf(k - 1) + 1
      last == IF ends = {} THEN 0 ELSE EndOf(Cardinality(ends))
  IN  [k \in 1..Cardinality(ends) |-> SubSeq(text, StartOf(k), EndOf(k) - 1)]
        \o (IF last < Len(text) THEN <<SubSeq(text, last + 1, Len(text))>> ELSE <<>>)

\* '<timestamp> <level> <source> <message>' for an entry
LineForm(item) ==
  strftime(get_timestamp(item) \div 1000) \o <<" ">> \o FormatField(item.level)
    \o <<" ">> \o FormatField(item.source) \o <<" ">> \o FormatField(item.message)

C23_ExplicitOnlyWhenBothNonZero ==
  (c_pc = "stitch" /\ video_size # <<>>) =>
    video_size =
      IF report_options.VIDEO_WIDTH # 0 /\ report_options.VIDEO_HEIGHT # 0
      THEN <<report_options.VIDEO_WIDTH, report_options.VIDEO_HEIGHT>>
      ELSE get_resized_resolution(NativeResolution[1], NativeResolution[2],
                                  report_options.VIDEO_RESIZE_PERCENT)

\* the frame files lying in the scratch directory
FrameFiles == {f \in directory : EndsWith(f, PngExt)}

\* C24: when stitching lists the scratch directory, the frame files in it
\* are exactly vid_frame0 .. vid_frame(k-1) for some k >= 0: the counters
\* start at 0 and have no gap.
C24_FramesContiguous ==
  c_pc = "stitch" =>
    \E k \in 0..count : FrameFiles = {FrameName(n) : n \in 0..(k - 1)}

\* C25: at most one recording is active at any time: a test's recorder is
\* created only when the recording of the test before is over, its thread
\* ended and its scratch directory purged.
C25_OneRecordingAtATime ==
  [][recordings' # recordings => ~RecordingActive]_vars

\* the second test of the session is being recorded: its thread has
\* written a frame
C25_Witness ==
  /\ recordings = 2
  /\ t_pc = "check"
  /\ FrameName(0) \in directory

\* C26: when the stop comes before any frame was saved (no driver, the
\* first request failing, or the scratch directory not created),
\* stop-and-stitch still returns without raising and leaves no scratch
\* directory behind.
C26_StopBeforeFirstFrame ==
  (c_pc = "returned" /\ count = 0) =>
    /\ ~dir_exists
    /\ directory = {}
    /\ c_exc = "none"
    /\ "stop_recording_and_stitch_video" \notin rec_escaped

\* a recording with a driver saved no frame, no resolution could be
\* computed, the stitching failed and stop-and-stitch has returned
C26_Witness ==
  /\ c_pc = "returned"
  /\ count = 0
  /\ rec_driver = "driver"
  /\ report_options.VIDEO_WIDTH = 0
  /\ report_options.VIDEO_HEIGHT = 0
  /\ stitch_failed

\* C27: when the target resolution cannot be computed or stitching the
\* report video fails, no video is attached for the test.
C27_NoAttachAfterStitchFailure ==
  (\/ stitch_failed
   \/ c_pc \in {"stitch", "attach", "keep", "finally", "returned"} /\ video_size = <<>>)
    => attached_videos = 0

\* two frames were captured, the resolution was computed from them, the
\* stitching failed and stop-and-stitch has returned
C27_Witness ==
  /\ c_pc = "returned"
  /\ count = 2
  /\ video_size = <<150, 75>>
  /\ stitch_failed

\* the state of the recorder as the specification names it
RecorderState ==
  CASE c_pc = "none" -> "IDLE"
    [] c_pc = "registered" -> "RECORDING"
    [] c_pc \in {"join", "resize", "stitch", "attach", "keep", "finally"} -> "STOPPING"
    [] c_pc = "returned" ->
         IF stitch_failed \/ video_size = <<>> THEN "FAILED" ELSE "STITCHED"

\* the order of the steps of stop-and-stitch
StepRank(pc) ==
  CASE pc = "none" -> 0
    [] pc = "registered" -> 1
    [] pc = "join" -> 2
    [] pc = "resize" -> 3
    [] pc = "stitch" -> 4
    [] pc = "attach" -> 5
    [] pc = "keep" -> 6
    [] pc = "finally" -> 7
    [] pc = "returned" -> 8

\* C28: the recorder goes from RECORDING to STOPPING and from there to
\* STITCHED or FAILED, never back: the stop flag is false while recording,
\* is set by the first step of stop-and-stitch only and stays set; the steps
\* of stop-and-stitch are taken in order, the stitching after the stop was
\* requested; and in STITCHED or FAILED no frame is captured and nothing is
\* stitched, attached or stored any more.
C28_RecorderTransitions ==
  /\ [](RecorderState = "RECORDING" => ~stop)
  /\ [](RecorderState \in {"STOPPING", "STITCHED", "FAILED"} => stop)
  /\ [][/\ stop => stop'
        /\ stop' # stop => (c_pc = "registered" /\ c_pc' = "join")
        /\ c_pc' # c_pc => StepRank(c_pc') > StepRank(c_pc)
        /\ RecorderState \in {"STITCHED", "FAILED"} =>
             UNCHANGED <<c_pc, t_pc, count, directory, stitched, attached_videos,
                         video_store>>]_vars

\* the recorder reached STITCHED: its thread has ended and a video was
\* attached
C28_Witness ==
  /\ RecorderState = "STITCHED"
  /\ stop
  /\ t_pc = "done"
  /\ attached_videos = 1

\* C29: if every screenshot request of the driver returns, then once the
\* stop flag is set the capture loop is left, the join completes and
\* stop-and-stitch returns.
C29_StopTerminates ==
  [](t_pc # "hung") =>
    /\ stop ~> (t_pc = "done")
    /\ stop ~> (c_pc \in {"resize", "stitch", "attach", "keep", "finally", "returned"})
    /\ stop ~> (c_pc = "returned")

\* the flag was set while the loop was going on with two frames saved, the
\* thread has left the loop and stop-and-stitch has returned
C29_Witness ==
  /\ stop
  /\ count = 3
  /\ t_pc = "done"
  /\ c_pc = "returned"

\* C30: when a screenshot request of the capture loop never returns,
\* stop-and-stitch never gets past the join: the thread stays in the
\* request, nothing is stitched or attached, the scratch directory stays,
\* and the finalizer never returns.
C30_HangBlocksShutdown ==
  /\ [](t_pc = "hung" =>
          /\ c_pc \in {"registered", "join"}
          /\ dir_exists
          /\ stitched = <<>>
          /\ attached_videos = 0)
  /\ [][t_pc = "hung" => t_pc' = "hung" /\ c_pc' # "returned"]_vars

\* the second request never returns and stop-and-stitch waits in the join
\* with the first frame in the scratch directory
C30_Witness ==
  /\ t_pc = "hung"
  /\ c_pc = "join"
  /\ stop
  /\ count = 1
  /\ FrameName(0) \in directory

\* C31: the capture loop tests the stop flag only after a frame request.  A
\* thread that reached the loop (its directory was made) never leaves
\* start_capturing without having requested a frame, also when the flag was
\* set before the first turn; of the requests it makes at most one is made
\* or still under way with the flag set, and the test of the flag that
\* follows a returned request then ends the loop.
C31_StopTestedAfterSave ==
  /\ [](late_requests <= 1)
  /\ [][/\ (t_pc # "done" /\ t_pc' = "done" /\ requests' = 0) => ~dir_exists'
        /\ (stop /\ t_pc = "check" /\ t_pc' # t_pc) => t_pc' = "done"
        /\ (requests' # requests) => (t_pc = "save" /\ requests' = requests + 1)]_vars

\* the flag was set before the first turn of the loop; the thread still
\* requested one frame, which was written, and then left the loop
C31_Witness ==
  /\ stop
  /\ t_pc = "done"
  /\ requests = 1
  /\ late_requests = 1
  /\ count = 1
  /\ FrameName(0) \in directory

\* a step that completes an after-UI-operation event of the running test
AfterOperationEvent ==
  /\ phase = "running"
  /\ phase' \in {"running", "raising"}
  /\ pending_op' = "none"
  /\ ops_done' = ops_done + 1 \/ pending_op # "none"

\* the step added an attachment of the kind to the report
Attached(kind) ==
  \E i \in DOMAIN attachments' : i > Len(attachments) /\ attachments'[i].method = kind

\* C32: the capture of an artifact type at an event depends on that type's
\* own gate decision only: after every completed UI operation, an action
\* chain included, the console log is captured (attached to the registered
\* sinks, unless the capture itself fails) if the console-log policy permits
\* AFTER_UI_OPERATION, whatever the screenshot policy, and is not captured if
\* it does not.
C32_EachTypeOwnGate ==
  [][AfterOperationEvent /\ currently_applicable_reports # <<>>
       => IF can_record("JS_LOG", "AFTER_UI_OPERATION")
          THEN Attached("text") \/ "JS_LOG" \in omitted'
          ELSE ~Attached("text")]_vars

\* the screenshot attachments a sink received in the current test, by the
\* name of the operation they were captured for
ScreenshotsOf(att, report_mod) ==
  LET images == SelectSeq(att, LAMBDA a : a.sink = report_mod /\ a.method = "image")
  IN  [i \in DOMAIN images |-> images[i].desc]

\* C33: with screenshot policy EACH_UI_OPERATION or ALWAYS and the highlight
\* flag on, a click on an element (no capture of which failed) gives every
\* registered sink one highlighted screenshot captured before the click and
\* then one plain screenshot captured after it.
C33_HighlightedThenPlain ==
  [][/\ pending_op = "click" /\ pending_op' = "none" /\ phase' = "running"
     /\ report_options.SS_FREQUENCY \in {"EACH_UI_OPERATION", "ALWAYS"}
     /\ report_options.SS_HIGHLIGHT_ELEMENT
     /\ omitted' = {}
     => \A i \in DOMAIN currently_applicable_reports :
          ScreenshotsOf(attachments', currently_applicable_reports[i])
            = <<"before click", "after click">>]_vars

\* the attachments of a kind a sink received in the current test
AttachmentsOf(kind, report_mod) ==
  Cardinality({i \in DOMAIN attachments :
                 attachments[i].sink = report_mod /\ attachments[i].method = kind})

\* C34: under END_OF_EACH_TEST for screenshots and console logs, a test ends,
\* passing or failing, with exactly one screenshot and exactly one console
\* log per registered sink, no capture having failed: a failing test is not
\* captured at ERROR and again at AFTER_TEST.
C34_EndOfEachTestExactlyOne ==
  (/\ phase = "finished"
   /\ report_options.SS_FREQUENCY = "END_OF_EACH_TEST"
   /\ report_options.JS_LOG_FREQUENCY = "END_OF_EACH_TEST"
   /\ omitted = {})
    => \A i \in DOMAIN currently_applicable_reports :
         /\ AttachmentsOf("image", currently_applicable_reports[i]) = 1
         /\ AttachmentsOf("text", currently_applicable_reports[i]) = 1

\* the attachments a step added to those of the current test
NewAttachments == SubSeq(attachments', Len(attachments) + 1, Len(attachments'))

\* C35: within a test the attachments of successive events appear in event
\* order (a step only appends to them), the attachments one event adds carry
\* that event's name, and among them no console log precedes a screenshot:
\* the screenshot of an event is captured and attached before its console log
\* is fetched and attached.  Navigate-back adds console logs only.
C35_ScreenshotBeforeLogs ==
  /\ [](\A i \in DOMAIN attachments :
          attachments[i].desc = "after navigating back" => attachments[i].method = "text")
  /\ [][InTest /\ InTest'
          => /\ Len(attachments') >= Len(attachments)
             /\ SubSeq(attachments', 1, Len(attachments)) = attachments
             /\ \A i, j \in DOMAIN NewAttachments :
                  /\ NewAttachments[i].desc = NewAttachments[j].desc
                  /\ i < j => ~(/\ NewAttachments[i].method = "text"
                                /\ NewAttachments[j].method = "image")]_vars

\* a click and then the end of the test, each with its screenshot first and
\* its console log second
C35_Witness ==
  /\ phase = "finished"
  /\ Len(attachments) = 4
  /\ [i \in 1..4 |-> attachments[i].method] = <<"image", "text", "image", "text">>
  /\ [i \in 1..4 |-> attachments[i].desc]
       = <<"after click", "after click", "after test", "after test">>

\* C36: the driver the recorder thread works on is the content of the test's
\* driver slot when _video_capture set the recorder up, and it is never read
\* again.  A driver the test registers later is not seen by the recorder:
\* started on an absent driver it captures no frame and leaves
\* start_capturing on its first request.
C36_DriverReadOnceAtSetup ==
  /\ rec_driver = local_driver
  /\ [](rec_driver = "None"
          => count = 0 /\ requests <= 1 /\ FrameFiles = {})
  /\ [][/\ recordings' # recordings => rec_driver' = local_driver'
        /\ recordings' = recordings => rec_driver' = rec_driver
        /\ (rec_driver = "None" /\ requests' > requests) => t_pc' = "done"]_vars

\* the test registered its driver after the recorder was set up on an empty
\* slot; the thread made its one request, captured nothing and has exited
C36_Witness ==
  /\ local_driver = "driver"
  /\ rec_driver = "None"
  /\ t_pc = "done"
  /\ requests = 1
  /\ count = 0

\* C37: with screenshot policy NEVER and video recording disabled, no step
\* of the session, its setup and its teardown included, changes the
\* screenshot directory, the video directory or their contents.
C37_UnusedDirsUntouched ==
  [][(report_options.SS_FREQUENCY = "NEVER" /\ ~report_options.VIDEO_ENABLED)
       => UNCHANGED <<ss_dir_exists, ss_files, ss_originals, video_dir_exists,
                      video_store>>]_vars

\* the parameters whose entry casts to bool, as far as they are followed
BooleanParameters == {"SS_KEEP_FILES"}

\* a value that denotes true: the bool True or the text 'True'
DenotesTrue(value) == value \in {PyBool(TRUE), PyStr("True")}

\* C38: a boolean parameter resolves to true exactly when the value picked
\* for it from the command line, the environment or the default denotes
\* true; the text 'False' on the command line or in the environment
\* resolves it to false.
C38_BooleanDenotation ==
  param_values # <<>> =>
    \A p \in BooleanParameters :
      param_values[p] =
        PyBool(DenotesTrue(value_before_cast(p, resolved_from.cmd_line[p],
                                             resolved_from.env[p])))

====
